---- MODULE Spec2Model ----
(***************************************************************************)
(* Model of the kustomize-to-helm converter of hack/setup/scripts/         *)
(* helm-converter: the semantic manifest comparator (compare_manifests.py) *)
(* and the chart/values generators (helm_converter/).                      *)
(*                                                                         *)
(* Structural documents (the result of yaml.safe_load) are tagged nodes:   *)
(*   Map(f)   a dict, f a function from key to node                        *)
(*   List(s)  a list, s a sequence of nodes                                *)
(*   Str(c)   a string, c a sequence of tokens (a token is a run of        *)
(*            characters; every delimiter character the code looks at is   *)
(*            a token of its own)                                          *)
(*   Num(i)   an integer, Null the value None                              *)
(* Python's == on such values is structural and ignores dict order, which  *)
(* is TLA+ equality on the nodes.                                          *)
(***************************************************************************)
EXTENDS Integers, Sequences, FiniteSets, TLC

VARIABLES
    pc,              \* position of the operation being run
    kustomize_docs,  \* compare_resources: the documents of side A
    helm_docs,       \* compare_resources: the documents of side B
    mappers,         \* compare_resources: the mapper files, in load order
    exclude_crds,    \* compare_resources: the exclude_crds argument
    result,          \* what the operation returned
    tests,           \* main: the test configurations with what their renders produce
    kserve_version,  \* main: KSERVE_VERSION of kserve-deps.env
    test_idx,        \* main: position of "for test in tests"
    reports,         \* main: the reports collected so far
    all_success,     \* main: the running verdict of the batch
    exit_code,       \* main: the value returned, -1 before the return
    escape_obj,      \* _escape_go_templates_in_resource: its argument obj
    chart_name,      \* _generate_kustomize_resources: mapping['metadata']['name']
    component_name,  \* _generate_kustomize_resources: the component
    resources,       \* _generate_kustomize_resources: the resources of the component
    templates,       \* _generate_kustomize_resources: the files written, by file name
    manifest,        \* the controllerManager workload of the component
    cm_config,       \* the controllerManager entry of the mapping
    app_version,     \* mapping['metadata']['appVersion']
    values,          \* ValuesGenerator: the values the chart is rendered with
    version_anchor_fields,  \* ComponentBuilder: the fields that use the version anchor
    image_template,  \* _generate_container_spec: the image line of the template
    rendered_image,  \* the image of the rendered workload
    yaml_content,    \* ValuesGenerator.generate: the lines of values.yaml
    warnings,        \* the builders: the fields a warning was printed for
    lookup_obj,      \* get_value_from_path: its argument obj
    lookup_path,     \* get_value_from_path: its argument path
    lookup_result,   \* get_value_from_path: the value returned or the exception raised
    workload_type,   \* _generate_workload: 'deployment' or 'daemonset'
    workload_template,  \* _generate_workload: the lines of the template
    components,      \* convert.main: the components of the mapping with their manifests
    component_idx,   \* convert.main: the component whose templates are produced next
    output_files,    \* convert.main: the files of the output directory written by the run
    convert_exit,    \* convert.main: the exit status, -1 while it runs
    mapping,         \* ValuesGenerator: the mapping it was constructed with
    manifests,       \* ValuesGenerator: manifests['components'], the workload by component
    builder_fields,  \* ComponentBuilder.version_anchor_fields
    builds           \* ValuesGenerator: the calls of _build_values so far

comparatorVars == <<kustomize_docs, helm_docs, mappers, exclude_crds, result>>
mainVars == <<tests, kserve_version, test_idx, reports, all_success, exit_code>>
imageVars == <<manifest, cm_config, app_version, values, version_anchor_fields,
               image_template, rendered_image, yaml_content, warnings>>
generatorVars == <<escape_obj, chart_name, component_name, resources, templates, imageVars>>
pathVars == <<lookup_obj, lookup_path, lookup_result>>
workloadVars == <<workload_type, workload_template>>
conversionVars == <<components, component_idx, output_files, convert_exit>>
valuesVars == <<mapping, manifests, builder_fields, builds>>
converterVars == <<pathVars, workloadVars, conversionVars, valuesVars>>
vars == <<pc, comparatorVars, mainVars, generatorVars, converterVars>>

\* main() is not running
IdleMain ==
    /\ tests = <<>>
    /\ kserve_version = "latest"
    /\ test_idx = 0
    /\ reports = <<>>
    /\ all_success = TRUE
    /\ exit_code = -1

\* get_value_from_path is not called on its own
IdlePath ==
    /\ lookup_obj = [t |-> "null", v |-> 0]
    /\ lookup_path = [segs |-> <<>>, split |-> [on |-> FALSE, delim |-> "", index |-> 0]]
    /\ lookup_result = [ok |-> FALSE, v |-> [t |-> "null", v |-> 0], err |-> "none"]

\* the workload generator is not running
IdleWorkload ==
    /\ workload_type = ""
    /\ workload_template = <<>>

\* convert.main is not running
IdleConversion ==
    /\ components = <<>>
    /\ component_idx = 0
    /\ output_files = {}
    /\ convert_exit = -1

\* no ValuesGenerator is constructed
IdleValues ==
    /\ mapping = <<>>
    /\ manifests = <<>>
    /\ builder_fields = <<>>
    /\ builds = 0

IdleConverter ==
    /\ IdlePath
    /\ IdleWorkload
    /\ IdleConversion
    /\ IdleValues

IdleImage ==
    /\ manifest = [t |-> "null", v |-> 0]
    /\ cm_config = <<>>
    /\ app_version = "latest"
    /\ values = [t |-> "null", v |-> 0]
    /\ version_anchor_fields = <<>>
    /\ image_template = <<>>
    /\ rendered_image = <<>>
    /\ yaml_content = <<>>
    /\ warnings = {}

\* no generator is running
IdleGenerator ==
    /\ IdleImage
    /\ escape_obj = [t |-> "null", v |-> 0]
    /\ chart_name = ""
    /\ component_name = ""
    /\ resources = <<>>
    /\ templates = <<>>

-----------------------------------------------------------------------------
(* Nodes *)

Str(c) == [t |-> "str", v |-> c]
Num(i) == [t |-> "num", v |-> i]
Map(f) == [t |-> "map", v |-> f]
List(s) == [t |-> "list", v |-> s]
\* a float, held in tenths: Float(10) is 1.0
Float(tenths) == [t |-> "float", v |-> tenths]
Null == [t |-> "null", v |-> 0]
Bool(b) == [t |-> "bool", v |-> b]
Tok(s) == Str(<<s>>)
EmptyMap == Map(<<>>)

IsMap(n) == n.t = "map"
IsList(n) == n.t = "list"
IsStr(n) == n.t = "str"
IsNum(n) == n.t = "num"
IsFloat(n) == n.t = "float"

Has(n, k) == IsMap(n) /\ k \in DOMAIN n.v
Put(n, k, val) == Map((k :> val) @@ n.v)
Del(n, k) == Map([x \in DOMAIN n.v \ {k} |-> n.v[x]])
\* dict.get(k, default)
GetOr(n, k, default) == IF Has(n, k) THEN n.v[k] ELSE default
\* Python truthiness of a node
Truthy(n) ==
    CASE n.t = "map" -> DOMAIN n.v # {}
      [] n.t = "list" -> Len(n.v) > 0
      [] n.t = "str" -> Len(n.v) > 0
      [] n.t = "num" -> n.v # 0
      [] n.t = "float" -> n.v # 0
      [] n.t = "bool" -> n.v
      [] OTHER -> FALSE

-----------------------------------------------------------------------------
(* Strings *)

\* position of the last occurrence of token d in s, 0 when absent
LastIndexOf(s, d) ==
    IF \E i \in 1..Len(s) : s[i] = d
    THEN CHOOSE i \in 1..Len(s) : s[i] = d /\ \A j \in (i+1)..Len(s) : s[j] # d
    ELSE 0

FirstIndexOf(s, d) ==
    IF \E i \in 1..Len(s) : s[i] = d
    THEN CHOOSE i \in 1..Len(s) : s[i] = d /\ \A j \in 1..(i-1) : s[j] # d
    ELSE 0

\* str.rsplit(d, 1): the list of the parts
RSplit1(s, d) ==
    LET i == LastIndexOf(s, d)
    IN IF i = 0 THEN <<s>>
       ELSE <<SubSeq(s, 1, i - 1), SubSeq(s, i + 1, Len(s))>>

\* str.split(d): the list of the parts
RECURSIVE SplitAll(_, _)
SplitAll(s, d) ==
    LET i == FirstIndexOf(s, d)
    IN IF i = 0 THEN <<s>>
       ELSE <<SubSeq(s, 1, i - 1)>> \o SplitAll(SubSeq(s, i + 1, Len(s)), d)

\* s.startswith(p)
StartsWith(s, p) == Len(s) >= Len(p) /\ SubSeq(s, 1, Len(p)) = p

-----------------------------------------------------------------------------
(* Path Extractor: get_value_from_path.  A path expression is kept parsed:  *)
(* segs is the sequence of dot-separated segments, each a key with an       *)
(* optional [index] (idx = -1 when the segment has none), split is the      *)
(* trailing +(delimiter,index) operation or NoSplit.                        *)

Seg(k) == [key |-> k, idx |-> -1]
SegI(k, i) == [key |-> k, idx |-> i]
NoSplit == [on |-> FALSE, delim |-> "", index |-> 0]
SplitOp(d, i) == [on |-> TRUE, delim |-> d, index |-> i]
Path(segs, split) == [segs |-> segs, split |-> split]

Ok(val) == [ok |-> TRUE, v |-> val, err |-> "none"]
Err(e) == [ok |-> FALSE, v |-> Null, err |-> e]

\* value[key] for a string key
Subscript(value, key) ==
    IF IsMap(value)
    THEN IF key \in DOMAIN value.v THEN Ok(value.v[key]) ELSE Err("KeyError")
    ELSE Err("TypeError")

\* value[i] for an integer i >= 0
IndexInto(value, i) ==
    CASE IsList(value) ->
            IF i < Len(value.v) THEN Ok(value.v[i + 1]) ELSE Err("IndexError")
      [] IsStr(value) ->
            IF i < Len(value.v) THEN Ok(Tok(value.v[i + 1])) ELSE Err("IndexError")
      [] IsMap(value) -> Err("KeyError")
      [] OTHER -> Err("TypeError")

\* the loop "for part in parts" of get_value_from_path, from segment i on
RECURSIVE Navigate(_, _, _)
Navigate(value, segs, i) ==
    IF i > Len(segs) THEN Ok(value)
    ELSE LET seg == segs[i]
             r1 == Subscript(value, seg.key)
             r2 == IF r1.ok /\ seg.idx >= 0 THEN IndexInto(r1.v, seg.idx) ELSE r1
         IN IF r2.ok THEN Navigate(r2.v, segs, i + 1) ELSE r2

\* the "if split_op" branch of get_value_from_path
ApplySplit(value, split) ==
    IF ~IsStr(value) THEN Err("AttributeError")
    ELSE LET parts == IF split.delim = ":" THEN RSplit1(value.v, ":")
                      ELSE SplitAll(value.v, split.delim)
         IN IF split.index < Len(parts) THEN Ok(Str(parts[split.index + 1]))
            ELSE Err("IndexError")

get_value_from_path(obj, path) ==
    LET r == Navigate(obj, path.segs, 1)
    IN IF r.ok /\ path.split.on THEN ApplySplit(r.v, path.split) ELSE r

-----------------------------------------------------------------------------
(* Embedded documents: a ConfigMap data value is a text; the texts the      *)
(* model parses are a flat JSON object { k : n , k : n } and a number.      *)

NumToks == <<"0", "1", "2", "3">>
IsNumTok(tk) == \E i \in 1..Len(NumToks) : NumToks[i] = tk
NumOfTok(tk) == (CHOOSE i \in 1..Len(NumToks) : NumToks[i] = tk) - 1
Delims == {"{", "}", ":", ","}

\* number of key/value pairs of a flat object text, -1 when it is not one
ObjPairs(text) ==
    IF Len(text) < 2 \/ text[1] # "{" \/ text[Len(text)] # "}" THEN -1
    ELSE IF Len(text) = 2 THEN 0
    ELSE IF (Len(text) - 1) % 4 # 0 THEN -1
    ELSE LET n == (Len(text) - 1) \div 4
         IN IF \A j \in 0..(n - 1) :
                   /\ text[2 + 4 * j] \notin Delims
                   /\ text[3 + 4 * j] = ":"
                   /\ IsNumTok(text[4 + 4 * j])
                   /\ (j < n - 1 => text[5 + 4 * j] = ",")
            THEN n ELSE -1

\* the dict of a flat object text; a repeated key keeps its last value
ObjOf(text) ==
    LET n == ObjPairs(text)
        keys == {text[2 + 4 * j] : j \in 0..(n - 1)}
        lastOf(k) == CHOOSE j \in 0..(n - 1) :
                        /\ text[2 + 4 * j] = k
                        /\ \A j2 \in (j + 1)..(n - 1) : text[2 + 4 * j2] # k
    IN Map([k \in keys |-> Num(NumOfTok(text[4 + 4 * lastOf(k)]))])

\* json.loads(value)
json_loads(value) ==
    IF ~IsStr(value) THEN Err("TypeError")
    ELSE IF ObjPairs(value.v) >= 0 THEN Ok(ObjOf(value.v))
    ELSE IF Len(value.v) = 1 /\ IsNumTok(value.v[1]) THEN Ok(Num(NumOfTok(value.v[1])))
    ELSE Err("JSONDecodeError")

\* yaml.safe_load(value) of a string; a text that is no document stays a string
yaml_safe_load(value) ==
    IF ObjPairs(value.v) >= 0 THEN ObjOf(value.v)
    ELSE IF Len(value.v) = 1 /\ IsNumTok(value.v[1]) THEN Num(NumOfTok(value.v[1]))
    ELSE IF Len(value.v) = 0 THEN Null
    ELSE value

\* sort_dict_deep: rebuilds every dict with its keys in sorted order; a node
\* carries no key order (Python's == ignores it), so the rebuilt dict holds
\* the same entries
RECURSIVE sort_dict_deep(_)
sort_dict_deep(obj) ==
    CASE IsMap(obj) -> Map([k \in DOMAIN obj.v |-> sort_dict_deep(obj.v[k])])
      [] IsList(obj) -> List([i \in DOMAIN obj.v |-> sort_dict_deep(obj.v[i])])
      [] OTHER -> obj

-----------------------------------------------------------------------------
(* Normalization *)

\* str(number): "1" for the int 1, "1.0" for the float 1.0
PyStr(n) ==
    IF IsFloat(n) THEN Tok(ToString(n.v \div 10) \o "." \o ToString(n.v % 10))
    ELSE Tok(ToString(n.v))

RECURSIVE normalize_labels_annotations(_)
normalize_labels_annotations(obj) ==
    CASE IsMap(obj) -> Map([k \in DOMAIN obj.v |-> normalize_labels_annotations(obj.v[k])])
      [] IsList(obj) -> List([i \in DOMAIN obj.v |-> normalize_labels_annotations(obj.v[i])])
      [] IsNum(obj) \/ IsFloat(obj) -> PyStr(obj)
      [] OTHER -> obj

helm_labels == {"helm.sh/chart", "app.kubernetes.io/managed-by",
                "app.kubernetes.io/instance", "app.kubernetes.io/name",
                "app.kubernetes.io/version"}
helm_annotations == {"meta.helm.sh/release-name", "meta.helm.sh/release-namespace"}

\* one of the two blocks of normalize_metadata: drop the provenance keys of
\* metadata[field], turn its numbers into strings, delete it when empty
StripField(metadata, field, provenance) ==
    IF ~Has(metadata, field) THEN metadata
    ELSE LET kept == Map([k \in DOMAIN metadata.v[field].v \ provenance |->
                              metadata.v[field].v[k]])
             norm == normalize_labels_annotations(kept)
         IN IF ~Truthy(norm) THEN Del(metadata, field) ELSE Put(metadata, field, norm)

normalize_metadata(metadata) ==
    StripField(StripField(metadata, "labels", helm_labels), "annotations", helm_annotations)

WorkloadKinds == {<<"Deployment">>, <<"StatefulSet">>, <<"DaemonSet">>, <<"Job">>, <<"CronJob">>}

\* kind of a document as d.get('kind') gives it (Null when absent)
KindOf(d) == GetOr(d, "kind", Null)

NormTopMetadata(r) ==
    IF Has(r, "metadata") THEN Put(r, "metadata", normalize_metadata(r.v["metadata"])) ELSE r

NormPodMetadata(r) ==
    IF /\ KindOf(r).t = "str" /\ KindOf(r).v \in WorkloadKinds
       /\ Has(r, "spec") /\ Has(r.v["spec"], "template")
       /\ Has(r.v["spec"].v["template"], "metadata")
    THEN LET spec == r.v["spec"]
             tpl == spec.v["template"]
         IN Put(r, "spec", Put(spec, "template",
                  Put(tpl, "metadata", normalize_metadata(tpl.v["metadata"]))))
    ELSE r

NormSelector(r) ==
    IF /\ Has(r, "spec") /\ Has(r.v["spec"], "selector")
       /\ Has(r.v["spec"].v["selector"], "matchLabels")
    THEN LET spec == r.v["spec"]
             sel == spec.v["selector"]
         IN Put(r, "spec", Put(spec, "selector",
                  Put(sel, "matchLabels", normalize_labels_annotations(sel.v["matchLabels"]))))
    ELSE r

NormConfigMapData(r) ==
    IF KindOf(r) = Tok("ConfigMap") /\ Has(r, "data")
    THEN LET data == r.v["data"]
         IN Put(r, "data",
                Map([k \in DOMAIN data.v \ {"_example"} |->
                        IF IsStr(data.v[k]) THEN yaml_safe_load(data.v[k]) ELSE data.v[k]]))
    ELSE r

normalize_resource(resource) ==
    NormConfigMapData(NormSelector(NormPodMetadata(NormTopMetadata(resource))))

\* get_resource_key: "kind/namespace/name", or "kind/name" without namespace
get_resource_key(resource) ==
    LET kind == GetOr(resource, "kind", Tok("Unknown")).v
        md == GetOr(resource, "metadata", EmptyMap)
        name == GetOr(md, "name", Tok("unknown")).v
        namespace == GetOr(md, "namespace", Str(<<>>)).v
    IN IF Len(namespace) > 0 THEN kind \o <<"/">> \o namespace \o <<"/">> \o name
       ELSE kind \o <<"/">> \o name

-----------------------------------------------------------------------------
(* Comparator *)

\* compare_configmap_data: "same", "diff", or "raise" when an exception other
\* than json.JSONDecodeError leaves the function
DataFieldCmp(kv, hv) ==
    LET kj == json_loads(kv)
        hj == IF kj.ok THEN json_loads(hv) ELSE kj
    IN IF kj.ok /\ hj.ok
       THEN IF sort_dict_deep(kj.v) # sort_dict_deep(hj.v) THEN "diff" ELSE "same"
       ELSE IF hj.err = "JSONDecodeError"
       THEN IF kv # hv THEN "diff" ELSE "same"
       ELSE "raise"

compare_configmap_data(kustomize_cm, helm_cm) ==
    LET k_data == GetOr(kustomize_cm, "data", EmptyMap)
        h_data == GetOr(helm_cm, "data", EmptyMap)
        k_keys == DOMAIN k_data.v \ {"_example"}
        h_keys == DOMAIN h_data.v \ {"_example"}
        cmp == [key \in k_keys |-> DataFieldCmp(k_data.v[key], h_data.v[key])]
    IN IF k_keys # h_keys THEN "diff"
       ELSE IF \E key \in k_keys : cmp[key] = "raise" THEN "raise"
       ELSE IF \E key \in k_keys : cmp[key] = "diff" THEN "diff"
       ELSE "same"

\* A mapper file is a function from its top-level keys; the entries the
\* comparator reads are functions too (cm.get(k) is the value or "absent").
NoConfig == [found |-> FALSE, cfg |-> <<>>]
Found(c) == [found |-> TRUE, cfg |-> c]
In(k, f) == k \in DOMAIN f

\* the entries find_mapper_config_for_resource looks at in one mapper, in the
\* order it looks at them, each with the kind it stands for by default
RuntimeEntries(mapper) ==
    IF In("runtimes", mapper) \/ In("clusterServingRuntimes", mapper)
    THEN LET runtimes_key == IF In("runtimes", mapper) THEN "runtimes"
                             ELSE "clusterServingRuntimes"
             section == mapper[runtimes_key]
             runtime_list == IF In("runtimes", section) THEN section["runtimes"] ELSE <<>>
         IN [i \in DOMAIN runtime_list |->
                [cfg |-> runtime_list[i], kind |-> <<"ClusterServingRuntime">>]]
    ELSE <<>>

ComponentEntries(mapper, comp_key) ==
    IF In(comp_key, mapper)
    THEN LET comp == mapper[comp_key]
         IN (IF In("controllerManager", comp)
             THEN <<[cfg |-> comp["controllerManager"], kind |-> <<"Deployment">>]>>
             ELSE <<>>)
            \o
            (IF In("nodeAgent", comp)
             THEN <<[cfg |-> comp["nodeAgent"], kind |-> <<"DaemonSet">>]>>
             ELSE <<>>)
    ELSE <<>>

MapperEntries(mapper) ==
    RuntimeEntries(mapper) \o ComponentEntries(mapper, "kserve")
        \o ComponentEntries(mapper, "llmisvc") \o ComponentEntries(mapper, "localmodel")

RECURSIVE AllEntries(_, _)
AllEntries(ms, i) ==
    IF i > Len(ms) THEN <<>> ELSE MapperEntries(ms[i]) \o AllEntries(ms, i + 1)

EntryMatches(e, kind, name) ==
    /\ In("name", e.cfg) /\ Str(e.cfg["name"]) = name
    /\ Str(IF In("kind", e.cfg) THEN e.cfg["kind"] ELSE e.kind) = kind

find_mapper_config_for_resource(ms, resource) ==
    LET kind == KindOf(resource)
        name == GetOr(GetOr(resource, "metadata", EmptyMap), "name", Str(<<>>))
        es == AllEntries(ms, 1)
    IN IF \E i \in 1..Len(es) : EntryMatches(es[i], kind, name)
       THEN Found(es[CHOOSE i \in 1..Len(es) :
                        /\ EntryMatches(es[i], kind, name)
                        /\ \A j \in 1..(i - 1) : ~EntryMatches(es[j], kind, name)].cfg)
       ELSE NoConfig

PathErrors == {"KeyError", "IndexError", "TypeError"}

\* FieldCmp with the comparison of the two values inverted
FieldCmp_Inverted(k, h, path) ==
    LET k_val == get_value_from_path(k, path)
        h_val == IF k_val.ok THEN get_value_from_path(h, path) ELSE k_val
    IN IF k_val.ok /\ h_val.ok THEN (IF k_val.v = h_val.v THEN "diff" ELSE "same")
       ELSE IF h_val.err \in PathErrors THEN "diff"
       ELSE "raise"

\* one try block of compare_mapped_fields
FieldCmp(k, h, path) ==
    LET k_val == get_value_from_path(k, path)
        h_val == IF k_val.ok THEN get_value_from_path(h, path) ELSE k_val
    IN IF k_val.ok /\ h_val.ok THEN (IF k_val.v # h_val.v THEN "diff" ELSE "same")
       ELSE IF h_val.err \in PathErrors THEN "diff"
       ELSE "raise"

\* the fields compare_mapped_fields compares for a mapper entry, in order
MappedPaths(mapper_config) ==
    (IF In("image", mapper_config) /\ In("repository", mapper_config["image"])
        /\ In("path", mapper_config["image"]["repository"])
     THEN <<mapper_config["image"]["repository"]["path"]>> ELSE <<>>)
    \o
    (IF In("image", mapper_config) /\ In("tag", mapper_config["image"])
        /\ In("path", mapper_config["image"]["tag"])
     THEN <<mapper_config["image"]["tag"]["path"]>> ELSE <<>>)
    \o
    (IF In("resources", mapper_config) /\ In("path", mapper_config["resources"])
     THEN <<mapper_config["resources"]["path"]>> ELSE <<>>)

\* compare_mapped_fields comparing the whole documents
compare_mapped_fields_WholeDocument(kustomize_resource, helm_resource, mapper_config) ==
    IF kustomize_resource # helm_resource THEN "diff" ELSE "same"

compare_mapped_fields(kustomize_resource, helm_resource, mapper_config) ==
    LET paths == MappedPaths(mapper_config)
        cmp == [i \in DOMAIN paths |-> FieldCmp(kustomize_resource, helm_resource, paths[i])]
    IN IF \E i \in DOMAIN paths : cmp[i] = "raise" THEN "raise"
       ELSE IF \E i \in DOMAIN paths : cmp[i] = "diff" THEN "diff"
       ELSE "same"

\* the documents compare_resources keeps when exclude_crds is set
IsCRD(d) == KindOf(d) = Tok("CustomResourceDefinition")
FilterCRDs(docs, excl) == IF excl THEN SelectSeq(docs, LAMBDA d : ~IsCRD(d)) ELSE docs

KeysOf(docs) == {get_resource_key(docs[i]) : i \in DOMAIN docs}

\* {get_resource_key(r): normalize_resource(r) for r in docs}[key]: a later
\* document with the same key replaces an earlier one
Indexed(docs, key) ==
    normalize_resource(docs[CHOOSE i \in DOMAIN docs :
        /\ get_resource_key(docs[i]) = key
        /\ \A j \in DOMAIN docs : j > i => get_resource_key(docs[j]) # key])

\* next(r for r in docs if get_resource_key(r) == key)
Original(docs, key) ==
    docs[CHOOSE i \in DOMAIN docs :
        /\ get_resource_key(docs[i]) = key
        /\ \A j \in DOMAIN docs : j < i => get_resource_key(docs[j]) # key]

InferenceServiceConfigKey == <<"ConfigMap", "/", "kserve", "/", "inferenceservice-config">>

\* the keys of a set as the sequence the loop walks through
RECURSIVE SeqOfSet(_)
SeqOfSet(S) ==
    IF S = {} THEN <<>>
    ELSE LET x == CHOOSE x \in S : TRUE IN <<x>> \o SeqOfSet(S \ {x})

\* FullCompareStep without the look at the normalized documents
FullCompareStep_NoNormalizedCheck(acc, key, k_original, h_original, k_normalized, h_normalized) ==
    IF k_original # h_original
    THEN [acc EXCEPT !.critical = @ \cup {key}]
    ELSE acc

\* the else branch of the loop body ("No mapper config"): the originals are
\* compared first, the normalized documents only when the originals differ
FullCompareStep(acc, key, k_original, h_original, k_normalized, h_normalized) ==
    IF k_original # h_original
    THEN IF k_normalized = h_normalized
         THEN [acc EXCEPT !.minor = @ \cup {key}]
         ELSE [acc EXCEPT !.critical = @ \cup {key}]
    ELSE acc

\* "success, msg = compare_...(...)" followed by "if not success: append":
\* the comparison's result is stored in the verdict variable success itself
StoreComparison(acc, key, c) ==
    IF c = "raise" THEN [acc EXCEPT !.raised = TRUE]
    ELSE [acc EXCEPT !.success = (c = "same"),
                     !.critical = IF c = "diff" THEN @ \cup {key} ELSE @]

\* one iteration of "for key in sorted(common)": acc holds the local
\* variables success, critical_differences, minor_differences, and raised
\* once an exception has left the loop
ClassifyStep(acc, key, kdocs, hdocs, ms) ==
    IF acc.raised THEN acc
    ELSE
    LET k_original == Original(kdocs, key)
        h_original == Original(hdocs, key)
    IN IF key = InferenceServiceConfigKey
       THEN StoreComparison(acc, key, compare_configmap_data(k_original, h_original))
       ELSE LET mapper_config == IF Len(ms) > 0
                                 THEN find_mapper_config_for_resource(ms, k_original)
                                 ELSE NoConfig
            IN IF mapper_config.found /\ DOMAIN mapper_config.cfg # {}
               THEN StoreComparison(acc, key,
                        compare_mapped_fields(k_original, h_original, mapper_config.cfg))
               ELSE FullCompareStep(acc, key, k_original, h_original,
                                    Indexed(kdocs, key), Indexed(hdocs, key))

RECURSIVE ClassifyLoop(_, _, _, _, _, _)
ClassifyLoop(acc, keys, i, kdocs, hdocs, ms) ==
    IF i > Len(keys) THEN acc
    ELSE ClassifyLoop(ClassifyStep(acc, keys[i], kdocs, hdocs, ms), keys, i + 1, kdocs, hdocs, ms)

Raised == [raised |-> TRUE, success |-> FALSE, namespace_only |-> {},
           other_only_kustomize |-> {}, only_in_helm |-> {}, common |-> {},
           critical |-> {}, minor |-> {}]

compare_resources(kdocs0, hdocs0, ms, excl) ==
    LET kdocs == FilterCRDs(kdocs0, excl)
        hdocs == FilterCRDs(hdocs0, excl)
        k_keys == KeysOf(kdocs)
        h_keys == KeysOf(hdocs)
        only_in_kustomize == k_keys \ h_keys
        only_in_helm == h_keys \ k_keys
        common == k_keys \cap h_keys
        namespace_only == {k \in only_in_kustomize : StartsWith(k, <<"Namespace", "/">>)}
        other_only_kustomize == only_in_kustomize \ namespace_only
        success0 == ~(other_only_kustomize # {} \/ only_in_helm # {})
        acc == ClassifyLoop([success |-> success0, critical |-> {}, minor |-> {},
                             raised |-> FALSE],
                            SeqOfSet(common), 1, kdocs, hdocs, ms)
    IN IF acc.raised THEN Raised
       ELSE [raised |-> FALSE,
             success |-> IF acc.critical # {} THEN FALSE ELSE acc.success,
             namespace_only |-> namespace_only,
             other_only_kustomize |-> other_only_kustomize,
             only_in_helm |-> only_in_helm,
             common |-> common,
             critical |-> acc.critical,
             minor |-> acc.minor]

-----------------------------------------------------------------------------
(* Documents and mapper files the comparator is run on *)

MaxDocs == 2

SeqsUpTo(U, n) == UNION {[1..k -> U] : k \in 0..n}

\* metadata of a document: name, optional namespace, optional labels
Meta(ns, name, labels) ==
    Map(("name" :> Tok(name))
        @@ (IF ns = "" THEN <<>> ELSE ("namespace" :> Tok(ns)))
        @@ (IF labels = <<>> THEN <<>> ELSE ("labels" :> Map(labels))))

Container(cname, image, res) ==
    Map(("name" :> Tok(cname)) @@ ("image" :> Str(image))
        @@ (IF res = <<>> THEN <<>> ELSE ("resources" :> Map(res))))

Workload(kind, ns, name, labels, image, res, replicas) ==
    Map(("kind" :> Tok(kind)) @@ ("metadata" :> Meta(ns, name, labels))
        @@ ("spec" :> Map(("replicas" :> Num(replicas))
               @@ ("template" :> Map("spec" :> Map("containers" :>
                       List(<<Container("manager", image, res)>>)))))))

Service(ns, name, labels, port) ==
    Map(("kind" :> Tok("Service")) @@ ("metadata" :> Meta(ns, name, labels))
        @@ ("spec" :> Map("port" :> Num(port))))

Namespace(name) == Map(("kind" :> Tok("Namespace")) @@ ("metadata" :> Meta("", name, <<>>)))

ConfigMap(ns, name, labels, data) ==
    Map(("kind" :> Tok("ConfigMap")) @@ ("metadata" :> Meta(ns, name, labels))
        @@ ("data" :> Map(data)))

CRD(name) == Map(("kind" :> Tok("CustomResourceDefinition"))
                 @@ ("metadata" :> Meta("", name, <<>>)))

HelmLabels == ("app.kubernetes.io/managed-by" :> Tok("Helm"))
AppLabel == ("app" :> Tok("kserve"))
Cpu(n) == ("limits" :> Map("cpu" :> Num(n)))

ContainerSegs == <<Seg("spec"), Seg("template"), Seg("spec"), SegI("containers", 0)>>
RepoPath == Path(ContainerSegs \o <<Seg("image")>>, SplitOp(":", 0))
TagPath == Path(ContainerSegs \o <<Seg("image")>>, SplitOp(":", 1))
ResPath == Path(ContainerSegs \o <<Seg("resources")>>, NoSplit)
\* paths that resolve in no document of the model
NoSuchContainerPath == Path(<<Seg("spec"), Seg("template"), Seg("spec"),
                              SegI("containers", 1), Seg("image")>>, SplitOp(":", 0))

\* a mapper file with one component whose controllerManager maps the
\* Deployment called name
ControllerMapper(comp, name, repoPath, tagPath, resPath) ==
    (comp :> ("controllerManager" :>
        (("name" :> <<name>>) @@ ("kind" :> <<"Deployment">>)
         @@ ("image" :> (("repository" :> ("path" :> repoPath))
                         @@ ("tag" :> ("path" :> tagPath))))
         @@ ("resources" :> ("path" :> resPath)))))

KserveMapper == ControllerMapper("kserve", "kserve-controller-manager", RepoPath, TagPath, ResPath)

CmpInputs(KU, HU, Ms, Ex) ==
    /\ kustomize_docs \in SeqsUpTo(KU, MaxDocs)
    /\ helm_docs \in SeqsUpTo(HU, MaxDocs)
    /\ mappers \in Ms
    /\ exclude_crds \in Ex
    /\ pc = "start"
    /\ result = Raised
    /\ IdleMain
    /\ IdleGenerator
    /\ IdleConverter

\* compare_resources(kustomize_docs, helm_docs, test_name, mappers, exclude_crds)
Compare ==
    /\ pc = "start"
    /\ result' = compare_resources(kustomize_docs, helm_docs, mappers, exclude_crds)
    /\ pc' = "done"
    /\ UNCHANGED <<converterVars, kustomize_docs, helm_docs, mappers, exclude_crds, mainVars, generatorVars>>

-----------------------------------------------------------------------------
(* Verdict of compare_resources *)

Img(tag) == <<"registry.io/ctl", ":", tag>>
Manager == Workload("Deployment", "kserve", "kserve-controller-manager", <<>>, Img("v1"), Cpu(1), 1)

VerdictDocs ==
    { Namespace("kserve"),
      Manager,
      Workload("Deployment", "kserve", "kserve-controller-manager", <<>>, Img("v2"), Cpu(1), 1),
      Workload("Deployment", "kserve", "other", <<>>, Img("v1"), Cpu(1), 1),
      Service("kserve", "svc", <<>>, 1),
      Service("kserve", "svc", <<>>, 2),
      Service("kserve", "svc", HelmLabels, 1) }

InitVerdict == CmpInputs(VerdictDocs, VerdictDocs, {<<>>, <<KserveMapper>>}, BOOLEAN)
SpecVerdict == InitVerdict /\ [][Compare]_vars

\* C1: compare_resources returns success exactly when no common resource is
\* critical, no key exists only in Helm and no non-Namespace key exists only
\* in Kustomize; in particular a Deployment present only in Kustomize makes
\* the verdict fail whatever the per-resource comparisons return.
C1_VerdictIffNoFailingDifference ==
    (pc = "done" /\ ~result.raised) =>
        /\ result.success <=> /\ result.critical = {}
                              /\ result.only_in_helm = {}
                              /\ result.other_only_kustomize = {}
        /\ (\E k \in result.other_only_kustomize : StartsWith(k, <<"Deployment", "/">>))
              => ~result.success

-----------------------------------------------------------------------------
(* A resource set compared with itself *)

\* a mapper whose repository path names a container the manifests lack
StaleMapper == ControllerMapper("kserve", "kserve-controller-manager",
                                NoSuchContainerPath, TagPath, ResPath)
JsonBA == <<"{", "b", ":", "1", ",", "a", ":", "2", "}">>
JsonAB == <<"{", "a", ":", "2", ",", "b", ":", "1", "}">>
JsonAB3 == <<"{", "a", ":", "3", ",", "b", ":", "1", "}">>

SelfDocs ==
    { Namespace("kserve"),
      Manager,
      Workload("Deployment", "kserve", "kserve-controller-manager", HelmLabels, Img("v2"), <<>>, 2),
      \* an image reference without a tag
      Workload("Deployment", "kserve", "kserve-controller-manager", <<>>, <<"registry.io/ctl">>, Cpu(1), 1),
      Workload("DaemonSet", "kserve", "agent", AppLabel, Img("v1"), Cpu(1), 1),
      Service("kserve", "svc", HelmLabels, 1),
      ConfigMap("default", "cm", <<>>, ("k" :> Str(JsonBA))),
      ConfigMap("kserve", "inferenceservice-config", HelmLabels,
                ("k" :> Str(JsonBA)) @@ ("_example" :> Str(<<"doc">>))),
      CRD("inferenceservices.serving.kserve.io") }

InitSelf ==
    /\ kustomize_docs \in SeqsUpTo(SelfDocs, MaxDocs)
    /\ helm_docs = kustomize_docs
    /\ mappers \in {<<>>, <<KserveMapper>>, <<StaleMapper>>}
    /\ exclude_crds = TRUE
    /\ pc = "start"
    /\ result = Raised
    /\ IdleMain
    /\ IdleGenerator
    /\ IdleConverter
SpecSelf == InitSelf /\ [][Compare]_vars

NoDifference(r) ==
    /\ ~r.raised /\ r.success
    /\ r.namespace_only = {} /\ r.other_only_kustomize = {} /\ r.only_in_helm = {}
    /\ r.critical = {} /\ r.minor = {}

\* every path the mapper entry of a document declares resolves in the document
MappedPathsResolve(ms, d) ==
    LET mc == find_mapper_config_for_resource(ms, d)
    IN mc.found =>
          \A i \in DOMAIN MappedPaths(mc.cfg) :
              get_value_from_path(d, MappedPaths(mc.cfg)[i]).ok

-----------------------------------------------------------------------------
(* Resources that have a mapper entry *)

ManagerWith(labels, image, res, replicas) ==
    Workload("Deployment", "kserve", "kserve-controller-manager", labels, image, res, replicas)

MappedDocs ==
    { Manager,
      ManagerWith(<<>>, Img("v2"), Cpu(1), 1),
      \* an image reference without a tag
      ManagerWith(<<>>, <<"registry.io/ctl">>, Cpu(1), 1),
      ManagerWith(<<>>, <<"other.io/ctl", ":", "v1">>, <<>>, 1),
      ManagerWith(AppLabel, Img("v1"), Cpu(1), 2) }

\* a mapper whose resources path carries a split operation
SplitResMapper == ControllerMapper("kserve", "kserve-controller-manager", RepoPath, TagPath,
                                   Path(ContainerSegs \o <<Seg("resources")>>, SplitOp(":", 0)))

InitMapped == CmpInputs(MappedDocs, MappedDocs,
                        {<<KserveMapper>>, <<StaleMapper>>, <<SplitResMapper>>}, {TRUE})
SpecMapped == InitMapped /\ [][Compare]_vars

\* the documents compare_resources classifies a common key by
KOriginal(key) == Original(FilterCRDs(kustomize_docs, exclude_crds), key)
HOriginal(key) == Original(FilterCRDs(helm_docs, exclude_crds), key)
KNormalized(key) == Indexed(FilterCRDs(kustomize_docs, exclude_crds), key)
HNormalized(key) == Indexed(FilterCRDs(helm_docs, exclude_crds), key)
HasMapperEntry(key) ==
    /\ key # InferenceServiceConfigKey
    /\ find_mapper_config_for_resource(mappers, KOriginal(key)).found

\* a mapped field of the entry resolves to different values on the two sides
\* or fails to resolve on one of them
MappedFieldDiffers(key) ==
    LET paths == MappedPaths(find_mapper_config_for_resource(mappers, KOriginal(key)).cfg)
    IN \E i \in DOMAIN paths :
          LET kv == get_value_from_path(KOriginal(key), paths[i])
              hv == get_value_from_path(HOriginal(key), paths[i])
          IN ~kv.ok \/ ~hv.ok \/ kv.v # hv.v

-----------------------------------------------------------------------------
(* Resources that have no mapper entry *)

Isvc(labels, text) == ConfigMap("kserve", "inferenceservice-config", labels, ("k" :> Str(text)))

UnmappedDocs ==
    { Service("kserve", "svc", <<>>, 1),
      Service("kserve", "svc", HelmLabels, 1),
      Service("kserve", "svc", HelmLabels, 2),
      Isvc(<<>>, JsonBA),
      Isvc(HelmLabels, JsonBA),
      Isvc(<<>>, JsonAB3) }

InitUnmapped == CmpInputs(UnmappedDocs, UnmappedDocs, {<<KserveMapper>>}, {TRUE})
SpecUnmapped == InitUnmapped /\ [][Compare]_vars

\* the three-way classification of a common key by the documents
\* compare_resources holds for it
ClassifiedByNormalForm(key) ==
    /\ KOriginal(key) = HOriginal(key)
          => (key \notin result.critical /\ key \notin result.minor)
    /\ key \in result.minor
          <=> (KOriginal(key) # HOriginal(key) /\ KNormalized(key) = HNormalized(key))

-----------------------------------------------------------------------------
(* ConfigMaps whose data holds the same JSON object with the keys in another order *)

CmNames == {"cm", "inferenceservice-config"}
CmNamespaces == {"default", "kserve"}
ConfigMapsWith(text) == {ConfigMap(ns, n, <<>>, ("k" :> Str(text))) : ns \in CmNamespaces, n \in CmNames}

InitConfigMap == CmpInputs(ConfigMapsWith(JsonBA), ConfigMapsWith(JsonAB), {<<>>, <<KserveMapper>>}, {TRUE})
SpecConfigMap == InitConfigMap /\ [][Compare]_vars

\* C10: two ConfigMaps with the same identity whose data value is
\* {"b":1,"a":2} on one side and {"a":2,"b":1} on the other compare as
\* identical: the key is reported neither as a cosmetic nor as a critical
\* difference, for every name and namespace.
C10_ReorderedJsonIsIdentical ==
    (pc = "done" /\ ~result.raised) =>
        \A key \in result.common : key \notin result.minor /\ key \notin result.critical

-----------------------------------------------------------------------------
(* Label and annotation values that one renderer turned into a number *)

\* the values of the label "version": the string "1.0" and the float 1.0
VersionValues == {Tok("1.0"), Float(10)}

PodTemplate(labels, image) ==
    Map(("metadata" :> Map("labels" :> Map(labels)))
        @@ ("spec" :> Map("containers" :> List(<<Container("manager", image, <<>>)>>))))

\* a workload whose pod template carries the label version: Deployment keeps
\* the pod template under spec.template
LabelledDeployment(val, tag) ==
    Map(("kind" :> Tok("Deployment")) @@ ("metadata" :> Meta("kserve", "agent", <<>>))
        @@ ("spec" :> Map(("selector" :> Map("matchLabels" :> Map("version" :> val)))
                          @@ ("template" :> PodTemplate(("version" :> val), Img(tag))))))

\* CronJob keeps the pod template under spec.jobTemplate.spec.template
LabelledCronJob(val, tag) ==
    Map(("kind" :> Tok("CronJob")) @@ ("metadata" :> Meta("kserve", "cleanup", <<>>))
        @@ ("spec" :> Map("jobTemplate" :> Map("spec" :> Map("template" :>
                              PodTemplate(("version" :> val), Img(tag)))))))

AnnotatedService(val, port) ==
    Map(("kind" :> Tok("Service"))
        @@ ("metadata" :> Put(Meta("kserve", "svc", ("version" :> val)),
                              "annotations", Map("rev" :> val)))
        @@ ("spec" :> Map("port" :> Num(port))))

LabelDocs ==
    {AnnotatedService(val, 1) : val \in VersionValues}
    \cup {LabelledDeployment(val, "v1") : val \in VersionValues}
    \cup {LabelledCronJob(val, "v1") : val \in VersionValues}

InitLabels == CmpInputs(LabelDocs, LabelDocs, {<<KserveMapper>>}, {TRUE})
SpecLabels == InitLabels /\ [][Compare]_vars

\* the two documents are the same once every number is written as its text
SameUpToNumberTyping(k, h) ==
    normalize_labels_annotations(k) = normalize_labels_annotations(h)

\* each side holds one document with the identity key
OccursOnce(key) ==
    /\ Cardinality({i \in DOMAIN kustomize_docs : get_resource_key(kustomize_docs[i]) = key}) = 1
    /\ Cardinality({i \in DOMAIN helm_docs : get_resource_key(helm_docs[i]) = key}) = 1

\* C11: a common resource whose two documents differ only in label or
\* annotation values that are the string "1.0" on one side and the number
\* 1.0 on the other, whichever side holds the number, is not classified
\* critical.
C11_NumericLabelNeverCritical ==
    (pc = "done" /\ ~result.raised) =>
        \A key \in result.common :
            (OccursOnce(key) /\ SameUpToNumberTyping(KOriginal(key), HOriginal(key)))
                => key \notin result.critical

-----------------------------------------------------------------------------
(* main(): the batch of comparison tests *)

MaxTests == 2

\* what one external command (kustomize build, helm template) produces:
\* a non-zero return code, text that yaml.safe_load_all rejects, or documents
Exit1 == [rc |-> 1, parses |-> FALSE, docs |-> <<>>]
Unparseable == [rc |-> 0, parses |-> FALSE, docs |-> <<>>]
Out(docs) == [rc |-> 0, parses |-> TRUE, docs |-> docs]

\* run_command raises on a non-zero return code, yaml.safe_load_all on text
\* it cannot parse; both are Exceptions
RenderFails(outs) == \E i \in DOMAIN outs : outs[i].rc # 0 \/ ~outs[i].parses

\* docs.extend([d for d in docs if d]) over the outputs of one side
RECURSIVE Documents(_, _)
Documents(outs, i) ==
    IF i > Len(outs) THEN <<>>
    ELSE SelectSeq(outs[i].docs, Truthy) \o Documents(outs, i + 1)

\* re.sub(r':latest(-\w+)?', rf':{kserve_version}\1', output) on the text of
\* a string: the token latest after a colon becomes the version
ReplaceLatestText(c, version) ==
    [i \in 1..Len(c) |-> IF i > 1 /\ c[i-1] = ":" /\ c[i] = "latest" THEN version ELSE c[i]]

\* the same substitution on every string of a document
RECURSIVE ReplaceLatest(_, _)
ReplaceLatest(n, version) ==
    CASE IsStr(n) -> Str(ReplaceLatestText(n.v, version))
      [] IsMap(n) -> Map([k \in DOMAIN n.v |-> ReplaceLatest(n.v[k], version)])
      [] IsList(n) -> List([i \in DOMAIN n.v |-> ReplaceLatest(n.v[i], version)])
      [] OTHER -> n

\* the documents of the Kustomize side of a test
KustomizeDocuments(test, version) ==
    LET docs == Documents(test.kustomize, 1)
    IN [i \in 1..Len(docs) |-> ReplaceLatest(docs[i], version)]

HelmDocuments(test) == Documents(test.helm, 1)

\* the last line of the report compare_resources returns
Report(name, r) ==
    [test |-> name,
     status |-> IF r.success /\ r.minor = {} THEN "PASS"
                ELSE IF r.success THEN "PASS with warnings"
                ELSE "FAIL"]

\* the report of the except branch
ErrorReport(name) == [test |-> name, status |-> "ERROR"]

\* RecordVerdict with the comparison's result stored in the running verdict
RecordVerdict_Overwrite(all, success) == success

\* "if not success: all_success = False"
RecordVerdict(all, success) == IF ~success THEN FALSE ELSE all

\* "Build Kustomize output" of the test at test_idx
BuildKustomize ==
    /\ pc = "loop"
    /\ test_idx <= Len(tests)
    /\ IF RenderFails(tests[test_idx].kustomize)
       THEN pc' = "except" /\ UNCHANGED kustomize_docs
       ELSE /\ pc' = "helm"
            /\ kustomize_docs' = KustomizeDocuments(tests[test_idx], kserve_version)
    /\ UNCHANGED <<converterVars, helm_docs, mappers, exclude_crds, result, mainVars, generatorVars>>

\* "Build Helm output"
BuildHelm ==
    /\ pc = "helm"
    /\ IF RenderFails(tests[test_idx].helm)
       THEN pc' = "except" /\ UNCHANGED helm_docs
       ELSE /\ pc' = "compare"
            /\ helm_docs' = HelmDocuments(tests[test_idx])
    /\ UNCHANGED <<converterVars, kustomize_docs, mappers, exclude_crds, result, mainVars, generatorVars>>

\* "Compare": an exception of compare_resources goes to the except branch
CompareTest ==
    /\ pc = "compare"
    /\ exclude_crds' = tests[test_idx].exclude_crds
    /\ result' = compare_resources(kustomize_docs, helm_docs, mappers, exclude_crds')
    /\ IF result'.raised
       THEN pc' = "except" /\ UNCHANGED <<converterVars, reports, all_success, test_idx>>
       ELSE /\ reports' = Append(reports, Report(test_idx, result'))
            /\ all_success' = RecordVerdict(all_success, result'.success)
            /\ test_idx' = test_idx + 1
            /\ pc' = "loop"
    /\ UNCHANGED <<converterVars, kustomize_docs, helm_docs, mappers, tests, kserve_version, exit_code, generatorVars>>

\* HandleException leaving the loop after the error report
HandleException_AbortsBatch ==
    /\ pc = "except"
    /\ reports' = Append(reports, ErrorReport(test_idx))
    /\ all_success' = FALSE
    /\ test_idx' = Len(tests) + 1
    /\ pc' = "loop"
    /\ UNCHANGED <<converterVars, comparatorVars, tests, kserve_version, exit_code, generatorVars>>

\* "except Exception as e": the error report of this test, then the next test
HandleException ==
    /\ pc = "except"
    /\ reports' = Append(reports, ErrorReport(test_idx))
    /\ all_success' = FALSE
    /\ test_idx' = test_idx + 1
    /\ pc' = "loop"
    /\ UNCHANGED <<converterVars, comparatorVars, tests, kserve_version, exit_code, generatorVars>>

\* the final summary after the loop
Return ==
    /\ pc = "loop"
    /\ test_idx > Len(tests)
    /\ exit_code' = IF all_success THEN 0 ELSE 1
    /\ pc' = "done"
    /\ UNCHANGED <<converterVars, comparatorVars, tests, kserve_version, test_idx, reports, all_success, generatorVars>>

Svc(labels, port) == Service("kserve", "svc", labels, port)
Test(k, h, excl) == [kustomize |-> k, helm |-> h, exclude_crds |-> excl]

TestConfigs ==
    { \* identical, cosmetic and critical results
      Test(<<Out(<<Svc(<<>>, 1)>>)>>, <<Out(<<Svc(<<>>, 1)>>)>>, TRUE),
      Test(<<Out(<<Svc(<<>>, 1)>>)>>, <<Out(<<Svc(HelmLabels, 1)>>)>>, TRUE),
      Test(<<Out(<<Svc(<<>>, 1)>>)>>, <<Out(<<Svc(<<>>, 2)>>)>>, TRUE),
      \* a CRD on one side only, compared with exclude_crds off
      Test(<<Out(<<CRD("x.serving.kserve.io")>>)>>, <<Out(<<>>)>>, FALSE),
      \* kustomize build fails; the second overlay fails; helm output is not YAML
      Test(<<Exit1>>, <<Out(<<Svc(<<>>, 1)>>)>>, TRUE),
      Test(<<Out(<<Svc(<<>>, 1)>>), Exit1>>, <<Out(<<Svc(<<>>, 1)>>), Out(<<>>)>>, TRUE),
      Test(<<Out(<<Svc(<<>>, 1)>>)>>, <<Unparseable>>, TRUE),
      \* two overlays with an empty document and a :latest image
      Test(<<Out(<<Null, ManagerWith(<<>>, Img("latest"), Cpu(1), 1)>>), Out(<<Namespace("kserve")>>)>>,
           <<Out(<<Manager>>), Out(<<>>)>>, TRUE) }

InitMain ==
    /\ tests \in SeqsUpTo(TestConfigs, MaxTests)
    /\ kserve_version \in {"latest", "v1"}
    /\ mappers \in {<<>>, <<SplitResMapper>>}
    /\ test_idx = 1
    /\ reports = <<>>
    /\ all_success = TRUE
    /\ exit_code = -1
    /\ kustomize_docs = <<>>
    /\ helm_docs = <<>>
    /\ exclude_crds = TRUE
    /\ result = Raised
    /\ pc = "loop"
    /\ IdleGenerator
    /\ IdleConverter

NextMain == BuildKustomize \/ BuildHelm \/ CompareTest \/ HandleException \/ Return
SpecMain == InitMain /\ [][NextMain]_vars

\* a run_command or a parse of the test raises
RenderFailed(test) == RenderFails(test.kustomize) \/ RenderFails(test.helm)

\* what compare_resources returns for the documents of the test
Comparison(test) ==
    compare_resources(KustomizeDocuments(test, kserve_version), HelmDocuments(test),
                      mappers, test.exclude_crds)

\* C6: when main() has returned there is exactly one report per test, in
\* the order of the tests; the report of a test whose render failed (or
\* whose comparison raised) is the error report, and the report of every
\* other test is the one compare_resources gives for its documents,
\* whichever tests of the batch failed.
C6_OneReportPerTestFailureIsolated ==
    pc = "done" =>
        /\ Len(reports) = Len(tests)
        /\ \A i \in DOMAIN tests :
              reports[i] = IF RenderFailed(tests[i]) \/ Comparison(tests[i]).raised
                           THEN ErrorReport(i)
                           ELSE Report(i, Comparison(tests[i]))

\* a failed render in the first test, and the second test still compared
C6_Witness ==
    /\ pc = "done"
    /\ Len(tests) >= 2
    /\ RenderFailed(tests[1])
    /\ reports[1].status = "ERROR"
    /\ reports[2].status = "PASS"

\* C7: main() returns 0 exactly when every test rendered, its comparison
\* raised nothing and returned success (a pass with warnings included), and
\* 1 otherwise; the condition is over the tests as a set, so the exit code
\* is the same for every order of the tests.
C7_ExitZeroIffEveryTestSucceeds ==
    pc = "done" =>
        /\ exit_code \in {0, 1}
        /\ exit_code = 0 <=>
              \A i \in DOMAIN tests :
                  /\ ~RenderFailed(tests[i])
                  /\ ~Comparison(tests[i]).raised
                  /\ Comparison(tests[i]).success

\* exit code 0 for a batch with a cosmetic-only pass
C7_Witness ==
    /\ pc = "done"
    /\ exit_code = 0
    /\ Len(tests) >= 2
    /\ \E i \in DOMAIN reports : reports[i].status = "PASS with warnings"

-----------------------------------------------------------------------------
(* Escaping of Go template delimiters *)

\* str.replace(old, new): the occurrences of old are taken from the left and
\* do not overlap
RECURSIVE Replace(_, _, _)
Replace(s, old, new) ==
    IF Len(s) < Len(old) THEN s
    ELSE IF SubSeq(s, 1, Len(old)) = old
         THEN new \o Replace(SubSeq(s, Len(old) + 1, Len(s)), old, new)
         ELSE <<s[1]>> \o Replace(Tail(s), old, new)

\* the texts of the escaping, one token per character except the words HELM,
\* OPEN and CLOSE
Open == <<"{", "{">>
Close == <<"}", "}">>
HELM_OPEN == <<"_", "_", "HELM", "_", "OPEN", "_", "_">>
HELM_CLOSE == <<"_", "_", "HELM", "_", "CLOSE", "_", "_">>
OpenAction == <<"{", "{", " ", "\"", "{", "{", "\"", " ", "}", "}">>
CloseAction == <<"{", "{", " ", "\"", "}", "}", "\"", " ", "}", "}">>

\* the two lines of replace calls on a string
EscapeText(c) ==
    LET result1 == Replace(Replace(c, Open, HELM_OPEN), Close, HELM_CLOSE)
    IN Replace(Replace(result1, HELM_OPEN, OpenAction), HELM_CLOSE, CloseAction)

\* LiteralString only changes how the string is dumped, not its text
RECURSIVE escape_go_templates_in_resource(_)
escape_go_templates_in_resource(o) ==
    CASE IsStr(o) -> Str(EscapeText(o.v))
      [] IsMap(o) -> Map([k \in DOMAIN o.v |-> escape_go_templates_in_resource(o.v[k])])
      [] IsList(o) -> List([i \in DOMAIN o.v |-> escape_go_templates_in_resource(o.v[i])])
      [] OTHER -> o

\* escaped_line of _generate_llmisvc_config_template for a line of the spec
escaped_line(line) ==
    LET escaped1 == Replace(Replace(line, Open, HELM_OPEN), Close, HELM_CLOSE)
    IN Replace(Replace(escaped1, HELM_OPEN, OpenAction), HELM_CLOSE, CloseAction)

\* resource = self._escape_go_templates_in_resource(resource)
EscapeResource ==
    /\ pc = "start"
    /\ result' = escape_go_templates_in_resource(escape_obj)
    /\ pc' = "done"
    /\ UNCHANGED <<converterVars, kustomize_docs, helm_docs, mappers, exclude_crds, mainVars, generatorVars>>

\* the line-by-line escaping of an original_yaml
EscapeLine ==
    /\ pc = "start"
    /\ IsStr(escape_obj)
    /\ result' = Str(escaped_line(escape_obj.v))
    /\ pc' = "line_done"
    /\ UNCHANGED <<converterVars, kustomize_docs, helm_docs, mappers, exclude_crds, mainVars, generatorVars>>

MaxChunks == 4

Chunks == {<<"{">>, <<"}">>, <<"a">>, <<"_">>, HELM_OPEN, HELM_CLOSE}

RECURSIVE Concat(_, _)
Concat(ss, i) == IF i > Len(ss) THEN <<>> ELSE ss[i] \o Concat(ss, i + 1)

\* the strings made of at most n chunks
Texts(n) == {Concat(ss, 1) : ss \in SeqsUpTo(Chunks, n)}

InitEscape ==
    /\ escape_obj \in {Str(c) : c \in Texts(MaxChunks)}
                      \cup {Map("args" :> List(<<Str(c), Num(1)>>)) : c \in Texts(2)}
    /\ pc = "start"
    /\ result = [t |-> "null", v |-> 0]
    /\ kustomize_docs = <<>>
    /\ helm_docs = <<>>
    /\ mappers = <<>>
    /\ exclude_crds = TRUE
    /\ IdleMain
    /\ chart_name = ""
    /\ component_name = ""
    /\ resources = <<>>
    /\ templates = <<>>
    /\ IdleImage
    /\ IdleConverter

NextEscape == EscapeResource \/ EscapeLine
SpecEscape == InitEscape /\ [][NextEscape]_vars

\* what the outer templating system makes of a text: each {{ "{{" }} yields
\* {{, each {{ "}}" }} yields }}, everything else is literal
RECURSIVE Evaluate(_)
Evaluate(c) ==
    IF c = <<>> THEN <<>>
    ELSE IF Len(c) >= Len(OpenAction) /\ SubSeq(c, 1, Len(OpenAction)) = OpenAction
         THEN Open \o Evaluate(SubSeq(c, Len(OpenAction) + 1, Len(c)))
    ELSE IF Len(c) >= Len(CloseAction) /\ SubSeq(c, 1, Len(CloseAction)) = CloseAction
         THEN Close \o Evaluate(SubSeq(c, Len(CloseAction) + 1, Len(c)))
    ELSE <<c[1]>> \o Evaluate(Tail(c))

RECURSIVE EvaluateAll(_)
EvaluateAll(o) ==
    CASE IsStr(o) -> Str(Evaluate(o.v))
      [] IsMap(o) -> Map([k \in DOMAIN o.v |-> EvaluateAll(o.v[k])])
      [] IsList(o) -> List([i \in DOMAIN o.v |-> EvaluateAll(o.v[i])])
      [] OTHER -> o

\* C5: evaluating the escaped form of a string gives back the string, for
\* every string over braces, letters and the characters of the markers
\* __HELM_OPEN__ and __HELM_CLOSE__, runs of braces of any length included.
C5_EscapeRoundTrip ==
    pc \in {"done", "line_done"} => EvaluateAll(result) = escape_obj

-----------------------------------------------------------------------------
(* Templates of the resources of a component *)

\* constants.py
KSERVE_CORE_CRDS ==
    { "clusterservingruntimes.serving.kserve.io", "inferencegraphs.serving.kserve.io",
      "inferenceservices.serving.kserve.io", "servingruntimes.serving.kserve.io",
      "trainedmodels.serving.kserve.io", "inferencepools.serving.kserve.io",
      "clusterstoragecontainers.serving.kserve.io", "localmodelnodes.serving.kserve.io",
      "localmodelnodegroups.serving.kserve.io", "clustertrainedmodels.serving.kserve.io" }

ReleaseNamespace == Str(<<"{", "{", " ", ".Release.Namespace", " ", "}", "}">>)

\* resource.get('metadata', {}).get('name', 'unnamed'), as text
NameOf(r) == GetOr(GetOr(r, "metadata", EmptyMap), "name", Tok("unnamed")).v

\* 'manager' in name; the word manager is a token of its own in the names
ContainsManager(name) == \E i \in DOMAIN name : name[i] = "manager"

\* the resources the loop leaves without a file
Skipped(r) ==
    \/ KindOf(r) = Tok("Deployment") /\ ContainsManager(NameOf(r))
    \/ KindOf(r) = Tok("Namespace")
    \/ KindOf(r) = Tok("LLMInferenceServiceConfig")

\* kind.lower() for the kinds of the model
Lower(kind) ==
    CASE kind = "Deployment" -> "deployment"
      [] kind = "Service" -> "service"
      [] kind = "CustomResourceDefinition" -> "customresourcedefinition"
      [] kind = "MutatingWebhookConfiguration" -> "mutatingwebhookconfiguration"
      [] kind = "ConfigMap" -> "configmap"
      [] OTHER -> kind

\* f"{kind.lower()}_{name}.yaml"
Filename(r) == <<Lower(KindOf(r).v[1]), "_">> \o NameOf(r) \o <<".yaml">>

\* metadata.namespace replaced by the release namespace
WithReleaseNamespace(r) ==
    IF Has(r, "metadata") /\ Has(r.v["metadata"], "namespace")
    THEN Put(r, "metadata", Put(r.v["metadata"], "namespace", ReleaseNamespace))
    ELSE r

\* the same for the service of a webhook's clientConfig
WebhookWithReleaseNamespace(w) ==
    IF Has(w, "clientConfig") /\ Has(w.v["clientConfig"], "service")
    THEN Put(w, "clientConfig",
             Put(w.v["clientConfig"], "service",
                 Put(w.v["clientConfig"].v["service"], "namespace", ReleaseNamespace)))
    ELSE w

WithWebhookNamespaces(r) ==
    IF /\ KindOf(r) \in {Tok("MutatingWebhookConfiguration"), Tok("ValidatingWebhookConfiguration")}
       /\ Has(r, "webhooks")
    THEN Put(r, "webhooks", List([i \in DOMAIN r.v["webhooks"].v |->
                                     WebhookWithReleaseNamespace(r.v["webhooks"].v[i])]))
    ELSE r

is_main_component(component, chart) == component \in {chart, "kserve", "llmisvc"}

\* the file of one resource: guard is the enabled path of the wrapping
\* "if", empty when the resource is dumped without one
TemplateOf(component, chart, r) ==
    [guard |-> IF is_main_component(component, chart) THEN <<>>
               ELSE <<".Values.", component, ".enabled">>,
     resource |-> WithWebhookNamespaces(WithReleaseNamespace(escape_go_templates_in_resource(r)))]

\* the loop over resources.items(): a later file with the same name replaces
\* an earlier one
RECURSIVE WriteTemplates(_, _, _, _, _)
WriteTemplates(files, component, chart, rs, i) ==
    IF i > Len(rs) THEN files
    ELSE IF Skipped(rs[i]) THEN WriteTemplates(files, component, chart, rs, i + 1)
    ELSE WriteTemplates((Filename(rs[i]) :> TemplateOf(component, chart, rs[i])) @@ files,
                        component, chart, rs, i + 1)

generate_kustomize_resources ==
    /\ pc = "start"
    /\ templates' = WriteTemplates(<<>>, component_name, chart_name, resources, 1)
    /\ pc' = "done"
    /\ UNCHANGED <<converterVars, comparatorVars, mainVars, escape_obj, chart_name, component_name, resources, imageVars>>

MaxResources == 2

Named(kind, ns, name) ==
    Map(("kind" :> Tok(kind))
        @@ ("metadata" :> Map(("name" :> Str(name))
               @@ (IF ns = "" THEN <<>> ELSE ("namespace" :> Tok(ns))))))

ComponentResources ==
    { Named("Deployment", "kserve", <<"kserve-controller-", "manager">>),
      Named("Deployment", "kserve", <<"agent">>),
      Named("Namespace", "", <<"kserve">>),
      Named("LLMInferenceServiceConfig", "kserve", <<"router">>),
      Named("Service", "kserve", <<"webhook-service">>),
      Named("CustomResourceDefinition", "", <<"localmodelnodes.serving.kserve.io">>),
      Named("CustomResourceDefinition", "", <<"inferencepools.inference.networking.k8s.io">>),
      Put(Named("MutatingWebhookConfiguration", "", <<"hook">>), "webhooks",
          List(<<Map("clientConfig" :> Map("service" :> Map("namespace" :> Tok("kserve"))))>>)),
      Put(Named("ConfigMap", "kserve", <<"cfg">>), "data", Map("t" :> Str(<<"{", "{", "a", "}", "}">>))) }

InitResources ==
    /\ chart_name \in {"kserve-resources", "localmodel"}
    /\ component_name \in {"kserve", "llmisvc", "localmodel", "localmodelnode"}
    /\ resources \in SeqsUpTo(ComponentResources, MaxResources)
    /\ templates = <<>>
    /\ escape_obj = [t |-> "null", v |-> 0]
    /\ pc = "start"
    /\ result = Raised
    /\ kustomize_docs = <<>>
    /\ helm_docs = <<>>
    /\ mappers = <<>>
    /\ exclude_crds = TRUE
    /\ IdleMain
    /\ IdleImage
    /\ IdleConverter

SpecResources == InitResources /\ [][generate_kustomize_resources]_vars

IsCoreCRD(r) ==
    /\ KindOf(r) = Tok("CustomResourceDefinition")
    /\ Len(NameOf(r)) = 1
    /\ NameOf(r)[1] \in KSERVE_CORE_CRDS

\* C4: every resource of the component is either left without a file
\* (Skip, CrdOnly) or has exactly one file, dumped either without a guard
\* (Primary) or inside the component's enabled guard (Conditional); and a
\* CustomResourceDefinition named in KSERVE_CORE_CRDS has no file inside an
\* enabled guard, for any component.
C4_CoreCrdNeverConditional ==
    pc = "done" =>
        \A i \in DOMAIN resources :
            /\ Skipped(resources[i]) \/ Filename(resources[i]) \in DOMAIN templates
            /\ IsCoreCRD(resources[i]) =>
                  \/ Filename(resources[i]) \notin DOMAIN templates
                  \/ templates[Filename(resources[i])].guard = <<>>

-----------------------------------------------------------------------------
(* The image of a workload: default values, template, rendering *)

\* path_extractor.extract_from_manifest: the path extractor of the design,
\* which resolves a path as get_value_from_path does
extract_from_manifest(m, path) == get_value_from_path(m, path)

\* manifest['spec']['template']['spec']['containers'][0]['image']
ActualImage(m) == m.v["spec"].v["template"].v["spec"].v["containers"].v[1].v["image"].v

HasColon(image) == \E i \in DOMAIN image : image[i] = ":"

\* an entry of the image configuration: its path (when it has one) and the
\* place of the value in the values file
Field(hasPath, path, valuePath) == [hasPath |-> hasPath, path |-> path, valuePath |-> valuePath]

\* the errors the extraction falls back on; any other error leaves the builder
FallbackErrors == {"KeyError", "IndexError", "ValueError"}

ExtractRepository(cfg, m) ==
    LET fallback == IF HasColon(ActualImage(m)) THEN RSplit1(ActualImage(m), ":")[1]
                    ELSE ActualImage(m)
    IN IF ~cfg.hasPath THEN Ok(Str(fallback))
       ELSE LET r == extract_from_manifest(m, cfg.path)
            IN IF r.ok THEN r
               ELSE IF r.err \in FallbackErrors THEN Ok(Str(fallback))
               ELSE r

\* tag.replace('latest', chart_version) when 'latest' in tag
ExtractTag(cfg, m, chart_version) ==
    LET fallback == IF HasColon(ActualImage(m)) THEN RSplit1(ActualImage(m), ":")[2]
                    ELSE <<"latest">>
    IN IF ~cfg.hasPath THEN Ok(Str(fallback))
       ELSE LET r == extract_from_manifest(m, cfg.path)
            IN IF r.ok
               THEN IF ~IsStr(r.v) THEN Err("TypeError")
                    ELSE IF chart_version # "latest" /\ (\E i \in DOMAIN r.v.v : r.v.v[i] = "latest")
                    THEN Ok(Str(Replace(r.v.v, <<"latest">>, <<chart_version>>)))
                    ELSE r
               ELSE IF r.err = "IndexError" THEN Ok(Tok("latest"))
               ELSE IF r.err \in FallbackErrors THEN Ok(Str(fallback))
               ELSE r

\* pullPolicy of _extract_image_values: None when the image configuration
\* has no pullPolicy entry
ExtractPullPolicy(img_config, m) ==
    LET container == m.v["spec"].v["template"].v["spec"].v["containers"].v[1]
        fallback == GetOr(container, "imagePullPolicy", Tok("Always"))
    IN IF "pullPolicy" \notin DOMAIN img_config THEN Ok(Null)
       ELSE IF ~img_config.pullPolicy.hasPath THEN Ok(fallback)
       ELSE LET r == extract_from_manifest(m, img_config.pullPolicy.path)
            IN IF r.ok THEN r
               ELSE IF r.err \in FallbackErrors THEN Ok(fallback)
               ELSE r

\* the values of _extract_image_values: flat when the repository's valuePath
\* has two dots, nested under image otherwise; values that are empty are left out
ImageStructure(repoValuePath, repository, tag, pull_policy) ==
    IF Len(repoValuePath) = 3
    THEN Map((IF Truthy(repository) THEN ("image" :> repository) ELSE <<>>)
             @@ (IF Truthy(tag) THEN ("tag" :> tag) ELSE <<>>)
             @@ (IF Truthy(pull_policy) THEN ("imagePullPolicy" :> pull_policy) ELSE <<>>))
    ELSE Map("image" :>
             Map((IF Truthy(repository) THEN ("repository" :> repository) ELSE <<>>)
                 @@ (IF Truthy(tag) THEN ("tag" :> tag) ELSE <<>>)
                 @@ (IF Truthy(pull_policy) THEN ("pullPolicy" :> pull_policy) ELSE <<>>)))

\* the print calls of an extraction: a warning for an error of the except
\* clause that prints one
Warned(field, m, errors) ==
    /\ field.hasPath
    /\ ~extract_from_manifest(m, field.path).ok
    /\ extract_from_manifest(m, field.path).err \in errors

\* the warnings of _extract_image_values: the tag's IndexError clause sets
\* 'latest' and prints nothing
ImageWarnings(img_config, m) ==
    (IF Warned(img_config.repository, m, FallbackErrors) THEN {"repository"} ELSE {})
    \cup (IF Warned(img_config.tag, m, {"KeyError", "ValueError"}) THEN {"tag"} ELSE {})
    \cup (IF "pullPolicy" \in DOMAIN img_config /\ Warned(img_config.pullPolicy, m, FallbackErrors)
          THEN {"pullPolicy"} ELSE {})

\* values and version_anchor_fields additions of _extract_image_values
extract_image_values(img_config, m, component, key_name, chart_version) ==
    LET repository == ExtractRepository(img_config.repository, m)
        tag == ExtractTag(img_config.tag, m, chart_version)
        pull_policy == ExtractPullPolicy(img_config, m)
    IN IF ~repository.ok \/ ~tag.ok \/ ~pull_policy.ok
       THEN [raised |-> TRUE, values |-> EmptyMap, anchors |-> <<>>, warnings |-> {}]
       ELSE [raised |-> FALSE,
             values |-> ImageStructure(img_config.repository.valuePath, repository.v, tag.v,
                                       pull_policy.v),
             warnings |-> ImageWarnings(img_config, m),
             anchors |-> IF img_config.tag.useVersionAnchor
                         THEN <<<<component, key_name, "tag">>>> ELSE <<>>]

\* _build_controller_manager_values for a configuration with image and
\* resources entries
build_controller_manager_values(component, cfg, m, chart_version) ==
    LET value_path == cfg.image.repository.valuePath
        controller_key == IF Len(value_path) >= 2 THEN value_path[2] ELSE "controllerManager"
        img == extract_image_values(cfg.image, m, component, controller_key, chart_version)
        res == extract_from_manifest(m, cfg.resources.path)
        actual == GetOr(m.v["spec"].v["template"].v["spec"].v["containers"].v[1], "resources", EmptyMap)
        resources_value == IF res.ok THEN res.v
                           ELSE IF res.err \in FallbackErrors THEN actual ELSE Null
        with_resources == IF Truthy(resources_value)
                          THEN Put(img.values, "resources", resources_value)
                          ELSE img.values
    IN [raised |-> img.raised \/ (~res.ok /\ res.err \notin FallbackErrors),
        values |-> Map(controller_key :> with_resources),
        anchors |-> img.anchors,
        warnings |-> img.warnings
                     \cup (IF Warned(cfg.resources, m, FallbackErrors) THEN {"resources"} ELSE {})]

\* values.yaml as text: a line is the indentation depth, the key and the
\* text after "key: " (nothing for the header of a section)
Line(indent, key, val) == [indent |-> indent, key |-> key, val |-> val]

\* the keys of the values in the order the builders insert them
\* (yaml.dump with sort_keys=False keeps the insertion order)
KeyOrder == <<"kserve", "llmisvc", "ctl", "localmodel", "enabled",
              "controller", "controllerManager", "repo", "llmkserve",
              "image", "repository", "tag", "imagePullPolicy", "pullPolicy",
              "resources", "limits", "cpu">>

OrderedKeys(node) ==
    SelectSeq(KeyOrder, LAMBDA k : k \in DOMAIN node.v)
    \o SeqOfSet({k \in DOMAIN node.v : \A i \in DOMAIN KeyOrder : KeyOrder[i] # k})

\* the text of a key as the pieces a search for "<name>:" can end on
KeyText(k) == IF k = "llmkserve" THEN <<"llm", "kserve">> ELSE <<k>>

ScalarText(n) ==
    CASE IsStr(n) -> n.v
      [] IsNum(n) -> <<ToString(n.v)>>
      [] n.t = "bool" -> <<IF n.v THEN "true" ELSE "false">>
      [] IsMap(n) -> <<"{}">>
      [] IsList(n) -> <<"[]">>
      [] OTHER -> <<"null">>

\* yaml.dump(values, default_flow_style=False, sort_keys=False)
RECURSIVE yaml_dump_block(_, _, _, _)
yaml_dump_block(node, keys, i, indent) ==
    IF i > Len(keys) THEN <<>>
    ELSE LET child == node.v[keys[i]]
         IN (IF IsMap(child) /\ Truthy(child)
             THEN <<Line(indent, keys[i], <<>>)>>
                  \o yaml_dump_block(child, OrderedKeys(child), 1, indent + 1)
             ELSE <<Line(indent, keys[i], ScalarText(child))>>)
            \o yaml_dump_block(node, keys, i + 1, indent)

yaml_dump(vals) == yaml_dump_block(vals, OrderedKeys(vals), 1, 0)

\* "<name>:" occurs in the line: the key of the line ends with name
LineHas(line, name) == KeyText(line.key)[Len(KeyText(line.key))] = name

\* 'kserve:\n' in yaml_content
HasKserveText(lines) ==
    \E i \in DOMAIN lines : lines[i].val = <<>> /\ LineHas(lines[i], "kserve")

\* the matches of (^|\n)(kserve:)\n : the lines that are "kserve:" at column 0
KserveSections(lines) ==
    {i \in DOMAIN lines : lines[i].indent = 0 /\ lines[i].key = "kserve" /\ lines[i].val = <<>>}

\* "  version: &defaultVersion <version>"
VersionLine(version) == Line(1, "version", <<"&defaultVersion", version>>)

InsertAfter(lines, i, line) ==
    SubSeq(lines, 1, i) \o <<line>> \o SubSeq(lines, i + 1, Len(lines))

\* step 1 of apply_version_anchors: the anchor source kserve.version
AddAnchorSource(lines, version) ==
    IF HasKserveText(lines)
    THEN IF KserveSections(lines) = {} THEN lines
         ELSE InsertAfter(lines, CHOOSE i \in KserveSections(lines) :
                                     \A j \in KserveSections(lines) : i <= j,
                          VersionLine(version))
    ELSE <<Line(0, "kserve", <<>>), VersionLine(version)>> \o lines

\* "<field_name>: latest" or "<field_name>: <version>" at the end of a line
IsAnchorable(line, field_name, version) ==
    /\ LineHas(line, field_name)
    /\ line.val \in {<<"latest">>, <<version>>}

\* re.sub of apply_anchor_to_field from line start on: a match runs from the
\* first line that has "<parent_key>:" to the first later line that ends
\* with the field at latest or at the version; the search goes on behind it
RECURSIVE SubAnchor(_, _, _, _, _)
SubAnchor(lines, start, parent_key, field_name, version) ==
    LET parents == {i \in start..Len(lines) : LineHas(lines[i], parent_key)}
    IN IF parents = {} THEN lines
       ELSE LET i == CHOOSE x \in parents : \A y \in parents : x <= y
                fields == {j \in (i + 1)..Len(lines) : IsAnchorable(lines[j], field_name, version)}
            IN IF fields = {} THEN lines
               ELSE LET j == CHOOSE x \in fields : \A y \in fields : x <= y
                    IN SubAnchor([lines EXCEPT ![j].val = <<"*defaultVersion">>],
                                 j + 1, parent_key, field_name, version)

\* apply_anchor_to_field: parent_key and field_name are the last two parts
\* of the field path
apply_anchor_to_field(lines, field_path, version) ==
    IF Len(field_path) < 2 THEN lines
    ELSE SubAnchor(lines, 1, field_path[Len(field_path) - 1], field_path[Len(field_path)],
                   version)

RECURSIVE ApplyAnchorFields(_, _, _, _)
ApplyAnchorFields(lines, fields, i, version) ==
    IF i > Len(fields) THEN lines
    ELSE ApplyAnchorFields(apply_anchor_to_field(lines, fields[i], version), fields, i + 1, version)

apply_version_anchors(lines, version, fields) ==
    ApplyAnchorFields(AddAnchorSource(lines, version), fields, 1, version)

\* the value a scalar of values.yaml is read as, anchor being the text the
\* anchor defaultVersion stands for
ScalarOf(val, anchor) ==
    IF val = <<"*defaultVersion">> THEN Str(anchor)
    ELSE IF val[1] = "&defaultVersion" THEN Str(Tail(val))
    ELSE IF val = <<"{}">> THEN EmptyMap
    ELSE IF val = <<"[]">> THEN List(<<>>)
    ELSE IF val = <<"null">> THEN Null
    ELSE IF val \in {<<"true">>, <<"false">>} THEN Bool(val = <<"true">>)
    ELSE IF Len(val) = 1 /\ IsNumTok(val[1]) THEN Num(NumOfTok(val[1]))
    ELSE Str(val)

\* the last line of the block that starts at line i
BlockEnd(lines, i, hi) ==
    LET later == {j \in (i + 1)..hi : lines[j].indent <= lines[i].indent}
    IN IF later = {} THEN hi ELSE (CHOOSE x \in later : \A y \in later : x <= y) - 1

\* the mapping written at depth indent in lines lo..hi; a key written twice
\* keeps its last value
RECURSIVE LoadBlock(_, _, _, _, _)
LoadBlock(lines, lo, hi, indent, anchor) ==
    LET heads == {i \in lo..hi : lines[i].indent = indent}
        last(k) == CHOOSE i \in heads :
                      lines[i].key = k /\ \A j \in heads : j > i => lines[j].key # k
    IN Map([k \in {lines[i].key : i \in heads} |->
              IF lines[last(k)].val = <<>>
              THEN LoadBlock(lines, last(k) + 1, BlockEnd(lines, last(k), hi), indent + 1, anchor)
              ELSE ScalarOf(lines[last(k)].val, anchor)])

\* what the chart reads from values.yaml: an alias that no earlier line
\* defines is an error of the document
yaml_load(lines) ==
    LET anchors == {i \in DOMAIN lines : lines[i].val # <<>> /\ lines[i].val[1] = "&defaultVersion"}
        aliases == {i \in DOMAIN lines : lines[i].val = <<"*defaultVersion">>}
    IN IF \E i \in aliases : \A j \in anchors : j > i THEN Err("ComposerError")
       ELSE Ok(LoadBlock(lines, 1, Len(lines), 0,
                         IF anchors = {} THEN <<>>
                         ELSE Tail(lines[CHOOSE x \in anchors : \A y \in anchors : y <= x].val)))

\* ValuesGenerator._build_values: the values of the component are built; an
\* exception that no except clause of the builder names leaves it and no
\* values are returned
BuildValues ==
    /\ pc = "start"
    /\ \E built \in {build_controller_manager_values(component_name, cm_config, manifest, app_version)} :
          IF built.raised
          THEN /\ pc' = "raised"
               /\ UNCHANGED <<values, version_anchor_fields, warnings>>
          ELSE /\ values' = Map(component_name :> built.values)
               /\ version_anchor_fields' = built.anchors
               /\ warnings' = built.warnings
               /\ pc' = "built"
    /\ UNCHANGED <<converterVars, comparatorVars, mainVars, escape_obj, chart_name, component_name, resources,
                   templates, manifest, cm_config, app_version, image_template, rendered_image,
                   yaml_content>>

\* ValuesGenerator.generate: the values dumped, the anchors applied to the
\* text, the text written to values.yaml
ApplyVersionAnchors ==
    /\ pc = "built"
    /\ yaml_content' = apply_version_anchors(yaml_dump(values), app_version, version_anchor_fields)
    /\ pc' = "values"
    /\ UNCHANGED <<converterVars, comparatorVars, mainVars, escape_obj, chart_name, component_name, resources,
                   templates, manifest, cm_config, app_version, values, version_anchor_fields,
                   image_template, rendered_image, warnings>>

\* the image line of _generate_container_spec for the container called
\* manager: the repository reference and the chain of tag references
container_image_template(container, cfg) ==
    IF container.v["name"] = Tok("manager") /\ "image" \in DOMAIN cfg
    THEN [literal |-> <<>>,
          repository |-> cfg.image.repository.valuePath,
          tag |-> << <<"kserve", "version">>,
                     <<cfg.image.tag.valuePath[1], "version">>,
                     cfg.image.tag.valuePath >>]
    ELSE [literal |-> container.v["image"].v, repository |-> <<>>, tag |-> <<>>]

GenerateTemplate ==
    /\ pc = "values"
    /\ image_template' = container_image_template(
           manifest.v["spec"].v["template"].v["spec"].v["containers"].v[1], cm_config)
    /\ pc' = "template"
    /\ UNCHANGED <<converterVars, comparatorVars, mainVars, escape_obj, chart_name, component_name, resources,
                   templates, manifest, cm_config, app_version, values, version_anchor_fields,
                   rendered_image, yaml_content, warnings>>

\* .Values.a.b.c: nothing when a key is absent
RECURSIVE Lookup(_, _, _)
Lookup(n, segs, i) ==
    IF i > Len(segs) THEN n
    ELSE IF Has(n, segs[i]) THEN Lookup(n.v[segs[i]], segs, i + 1)
    ELSE Null

\* "x | default y | default z": the first of x, y, z that is not empty
RECURSIVE DefaultChain(_, _, _)
DefaultChain(vals, refs, i) ==
    IF i >= Len(refs) THEN Lookup(vals, refs[i], 1)
    ELSE IF Truthy(Lookup(vals, refs[i], 1)) THEN Lookup(vals, refs[i], 1)
    ELSE DefaultChain(vals, refs, i + 1)

TextOf(n) == IF IsStr(n) THEN n.v ELSE <<>>

\* helm template: the image line evaluated on the values read from
\* values.yaml; nothing is rendered when values.yaml cannot be read
HelmTemplate ==
    /\ pc = "template"
    /\ \E loaded \in {yaml_load(yaml_content)} :
          rendered_image' =
             IF ~loaded.ok THEN <<>>
             ELSE IF image_template.tag = <<>> THEN image_template.literal
             ELSE TextOf(Lookup(loaded.v, image_template.repository, 1)) \o <<":">>
                  \o TextOf(DefaultChain(loaded.v, image_template.tag, 1))
    /\ pc' = "done"
    /\ UNCHANGED <<converterVars, comparatorVars, mainVars, escape_obj, chart_name, component_name, resources,
                   templates, manifest, cm_config, app_version, values, version_anchor_fields,
                   image_template, yaml_content, warnings>>

Images ==
    { Img("latest"), Img("v1"), Img("v2"),
      <<"registry.io/ctl">>,
      <<"registry.io/ctl", ":", "latest", "-gpu">>,
      <<"host", ":", "5000/ctl", ":", "v1">> }

\* the controllerManager entries of a mapping: values flat or nested, the
\* fields with or without a path, the tag with or without useVersionAnchor
ImageConfigs(component) ==
    { [image |->
         [repository |-> Field(rp, RepoPath,
                               IF flat THEN <<component, "controller", "image">>
                               ELSE <<component, "controller", "image", "repository">>),
          tag |-> [hasPath |-> tp, path |-> TagPath,
                   valuePath |-> IF flat THEN <<component, "controller", "tag">>
                                 ELSE <<component, "controller", "image", "tag">>,
                   useVersionAnchor |-> anchor]],
       resources |-> Field(TRUE, ResPath, <<component, "controller", "resources">>)] :
      flat \in BOOLEAN, rp \in BOOLEAN, tp \in BOOLEAN, anchor \in BOOLEAN }

InitImage ==
    /\ manifest \in {ManagerWith(<<>>, image, Cpu(1), 1) : image \in Images}
    /\ app_version \in {"latest", "v1"}
    /\ component_name \in {"kserve", "llmisvc"}
    /\ cm_config \in ImageConfigs(component_name)
    /\ values = [t |-> "null", v |-> 0]
    /\ version_anchor_fields = <<>>
    /\ image_template = <<>>
    /\ rendered_image = <<>>
    /\ yaml_content = <<>>
    /\ warnings = {}
    /\ chart_name = ""
    /\ resources = <<>>
    /\ templates = <<>>
    /\ escape_obj = [t |-> "null", v |-> 0]
    /\ pc = "start"
    /\ result = Raised
    /\ kustomize_docs = <<>>
    /\ helm_docs = <<>>
    /\ mappers = <<>>
    /\ exclude_crds = TRUE
    /\ IdleMain
    /\ IdleConverter

NextImage == BuildValues \/ ApplyVersionAnchors \/ GenerateTemplate \/ HelmTemplate
SpecImage == InitImage /\ [][NextImage]_vars

\* both mapped image fields have a path and the paths resolve in the manifest
ImagePathsResolve ==
    /\ cm_config.image.repository.hasPath
    /\ cm_config.image.tag.hasPath
    /\ extract_from_manifest(manifest, cm_config.image.repository.path).ok
    /\ extract_from_manifest(manifest, cm_config.image.tag.path).ok

\* C2: the image of the workload rendered from the generated template with
\* the generated values (kserve.version included) is the repository and the
\* tag the mapped paths resolve to in the manifest, for every tag of the
\* manifest and every appVersion of the chart.
C2_ImageRoundTrip ==
    (pc = "done" /\ ImagePathsResolve) =>
        rendered_image =
            extract_from_manifest(manifest, cm_config.image.repository.path).v.v
            \o <<":">>
            \o extract_from_manifest(manifest, cm_config.image.tag.path).v.v
-----------------------------------------------------------------------------
(* The defaults document of a component *)

\* a controller Deployment with the fields the mapping can point at
DefaultsWorkload(image, policy, res) ==
    Map(("kind" :> Tok("Deployment"))
        @@ ("metadata" :> Meta("kserve", "kserve-controller-manager", <<>>))
        @@ ("spec" :> Map("template" :> Map("spec" :> Map(
               ("nodeSelector" :> Map("disk" :> Tok("ssd")))
               @@ ("containers" :> List(<<
                      Map(("name" :> Tok("manager")) @@ ("image" :> Str(image))
                          @@ (IF policy = "" THEN <<>> ELSE ("imagePullPolicy" :> Tok(policy)))
                          @@ ("resources" :> Map(res)))>>)))))))

PolicyPath == Path(ContainerSegs \o <<Seg("imagePullPolicy")>>, NoSplit)
NodeSelectorPath == Path(<<Seg("spec"), Seg("template"), Seg("spec"), Seg("nodeSelector")>>, NoSplit)

\* the parameter references of a controllerManager entry, by style: the
\* three-part and four-part references of the shipped mappings, and
\* references that sit directly under the component
ValuePaths(component, style) ==
    CASE style = "flat" ->
            [repository |-> <<component, "controller", "image">>,
             tag |-> <<component, "controller", "tag">>,
             pullPolicy |-> <<component, "controller", "imagePullPolicy">>,
             resources |-> <<component, "controller", "resources">>,
             nodeSelector |-> <<component, "controller", "nodeSelector">>]
      [] style = "nested" ->
            [repository |-> <<component, "controller", "image", "repository">>,
             tag |-> <<component, "controller", "image", "tag">>,
             pullPolicy |-> <<component, "controller", "image", "pullPolicy">>,
             resources |-> <<component, "controller", "resources">>,
             nodeSelector |-> <<component, "controller", "nodeSelector">>]
      [] OTHER ->
            [repository |-> <<component, "repo">>,
             tag |-> <<component, "tag">>,
             pullPolicy |-> <<component, "pullPolicy">>,
             resources |-> <<component, "resources">>,
             nodeSelector |-> <<component, "nodeSelector">>]

Styles == {"flat", "nested", "short"}

\* the controllerManager entries of a mapping in which every field has a
\* path; extra is whether the entry maps nodeSelector as well
DefaultsConfigs(component) ==
    { LET vp == ValuePaths(component, style)
          entry == [image |-> [repository |-> Field(TRUE, RepoPath, vp.repository),
                               tag |-> [hasPath |-> TRUE, path |-> TagPath,
                                        valuePath |-> vp.tag, useVersionAnchor |-> anchor],
                               pullPolicy |-> Field(TRUE, PolicyPath, vp.pullPolicy)],
                    resources |-> Field(TRUE, ResPath, vp.resources)]
      IN IF extra
         THEN entry @@ [nodeSelector |-> Field(TRUE, NodeSelectorPath, vp.nodeSelector)]
         ELSE entry :
      style \in Styles, anchor \in BOOLEAN, extra \in BOOLEAN }

\* the state before ValuesGenerator.generate for a chart with one component
DefaultsInputs(Manifests, Versions, Components, Configs(_)) ==
    /\ manifest \in Manifests
    /\ app_version \in Versions
    /\ component_name \in Components
    /\ cm_config \in Configs(component_name)
    /\ values = Null
    /\ version_anchor_fields = <<>>
    /\ image_template = <<>>
    /\ rendered_image = <<>>
    /\ yaml_content = <<>>
    /\ warnings = {}
    /\ chart_name = ""
    /\ resources = <<>>
    /\ templates = <<>>
    /\ escape_obj = Null
    /\ pc = "start"
    /\ result = Raised
    /\ kustomize_docs = <<>>
    /\ helm_docs = <<>>
    /\ mappers = <<>>
    /\ exclude_crds = TRUE
    /\ IdleMain
    /\ IdleConverter

InitDefaults ==
    DefaultsInputs({DefaultsWorkload(image, policy, Cpu(1)) :
                        image \in {Img("latest"), Img("v1"), Img("v2")},
                        policy \in {"", "IfNotPresent"}},
                   {"latest", "v1"}, {"kserve", "ctl"}, DefaultsConfigs)

NextDefaults == BuildValues \/ ApplyVersionAnchors
SpecDefaults == InitDefaults /\ [][NextDefaults]_vars

\* the mapped fields of a controllerManager entry
MappedFields(cfg) ==
    {cfg.image.repository, cfg.image.tag, cfg.resources}
    \cup (IF "pullPolicy" \in DOMAIN cfg.image
          THEN {[hasPath |-> cfg.image.pullPolicy.hasPath, path |-> cfg.image.pullPolicy.path,
                 valuePath |-> cfg.image.pullPolicy.valuePath]} ELSE {})
    \cup (IF "nodeSelector" \in DOMAIN cfg THEN {cfg.nodeSelector} ELSE {})

\* C12: for every mapped field whose path resolves in the manifest, the
\* defaults document holds the resolved value at the field's parameter
\* reference (valuePath).
C12_DefaultsHoldManifestValues ==
    pc = "values" =>
        /\ yaml_load(yaml_content).ok
        /\ \A f \in MappedFields(cm_config) :
              extract_from_manifest(manifest, f.path).ok =>
                 Lookup(yaml_load(yaml_content).v, f.valuePath, 1)
                    = extract_from_manifest(manifest, f.path).v

-----------------------------------------------------------------------------
(* Fields that use the version anchor *)

\* the keys from the top of the document down to line i
RECURSIVE LinePath(_, _)
LinePath(lines, i) ==
    IF lines[i].indent = 0 THEN <<lines[i].key>>
    ELSE LET above == {j \in 1..(i - 1) : lines[j].indent < lines[i].indent}
         IN LinePath(lines, CHOOSE x \in above : \A y \in above : y <= x) \o <<lines[i].key>>

\* where _extract_image_values puts the tag of the controller
TagLocation(cfg, component) ==
    LET key == cfg.image.repository.valuePath[2]
    IN IF Len(cfg.image.repository.valuePath) = 3
       THEN <<component, key, "tag">>
       ELSE <<component, key, "image", "tag">>

IsPlaceholder(line) == line.val = <<"*defaultVersion">>

\* C13: a tag marked useVersionAnchor is written at its place in
\* values.yaml as the alias of the root version, with no version text of
\* its own, for every tag of the manifest.
C13_AnchoredFieldIsPlaceholder ==
    (pc = "values" /\ cm_config.image.tag.useVersionAnchor) =>
        \E i \in DOMAIN yaml_content :
            /\ LinePath(yaml_content, i) = TagLocation(cm_config, component_name)
            /\ IsPlaceholder(yaml_content[i])

-----------------------------------------------------------------------------
(* The root version field of values.yaml *)

\* controllerManager entries whose values go under the key controller_key
AnchorConfigs(component) ==
    { [image |-> [repository |-> Field(TRUE, RepoPath, <<component, controller_key, "image">>),
                  tag |-> [hasPath |-> TRUE, path |-> TagPath,
                           valuePath |-> <<component, controller_key, "tag">>,
                           useVersionAnchor |-> anchor]],
       resources |-> Field(TRUE, ResPath, <<component, controller_key, "resources">>)] :
      controller_key \in {"controller", "kserve", "llmkserve"}, anchor \in BOOLEAN }

InitAnchors ==
    DefaultsInputs({DefaultsWorkload(image, "", res) :
                        image \in {Img("latest"), Img("v1"), Img("v2")},
                        res \in {Cpu(1), <<>>}},
                   {"latest", "v1"}, {"kserve", "llmisvc", "localmodel"}, AnchorConfigs)

SpecAnchors == InitAnchors /\ [][NextDefaults]_vars

AnchorDefinitions(lines) ==
    {i \in DOMAIN lines : lines[i].val # <<>> /\ lines[i].val[1] = "&defaultVersion"}

\* C14: values.yaml holds one definition of the anchor, kserve.version; it
\* is the first entry of the top-level kserve section when the dumped
\* values have one and the first entry of a new kserve section at the start
\* of the document otherwise; every alias of the anchor comes after it.
C14_OneRootVersionBeforeReferences ==
    pc = "values" =>
        \E i \in DOMAIN yaml_content :
            /\ AnchorDefinitions(yaml_content) = {i}
            /\ yaml_content[i] = VersionLine(app_version)
            /\ yaml_content[i - 1] = Line(0, "kserve", <<>>)
            /\ Has(values, "kserve") \/ i = 2
            /\ \A j \in DOMAIN yaml_content : IsPlaceholder(yaml_content[j]) => i < j

-----------------------------------------------------------------------------
(* Mapped paths that do not resolve in the manifest *)

\* why a path fails: a key that is absent, an index out of range, a split
\* element that is missing, a value that cannot be indexed
AbsentKey(field) == Path(ContainerSegs \o <<Seg("missing"), Seg(field)>>, NoSplit)
OutOfRange(field) ==
    Path(<<Seg("spec"), Seg("template"), Seg("spec"), SegI("containers", 1), Seg(field)>>, NoSplit)
MissingSplit(field) == Path(ContainerSegs \o <<Seg("name")>>, SplitOp(":", 1))
NotIndexable(field) == Path(ContainerSegs \o <<Seg("name"), Seg(field)>>, NoSplit)

FailingPaths(field) ==
    {AbsentKey(field), OutOfRange(field), MissingSplit(field), NotIndexable(field)}

\* controllerManager entries in which one field has a path that fails
FallbackConfigs(component) ==
    { [image |-> [repository |-> Field(TRUE, rp, <<component, "controller", "image">>),
                  tag |-> [hasPath |-> TRUE, path |-> tp,
                           valuePath |-> <<component, "controller", "tag">>,
                           useVersionAnchor |-> FALSE],
                  pullPolicy |-> Field(TRUE, pp, <<component, "controller", "imagePullPolicy">>)],
       resources |-> Field(TRUE, sp, <<component, "controller", "resources">>)] :
      rp \in {RepoPath} \cup FailingPaths("image"),
      tp \in {TagPath} \cup FailingPaths("image"),
      pp \in {PolicyPath} \cup FailingPaths("imagePullPolicy"),
      sp \in {ResPath} \cup FailingPaths("resources") }

InitFallback ==
    DefaultsInputs({DefaultsWorkload(Img("v2"), "IfNotPresent", Cpu(1))},
                   {"v1"}, {"kserve"}, FallbackConfigs)

NextFallback == BuildValues \/ ApplyVersionAnchors
SpecFallback == InitFallback /\ [][NextFallback]_vars

\* the mapped fields by name, with the place of their value in the values
\* and what the direct structural lookup of the builder gives
FallbackFields ==
    LET container == manifest.v["spec"].v["template"].v["spec"].v["containers"].v[1]
    IN { [name |-> "repository", field |-> cm_config.image.repository,
          at |-> <<component_name, "controller", "image">>,
          structural |-> Str(RSplit1(ActualImage(manifest), ":")[1])],
         [name |-> "tag", field |-> [hasPath |-> TRUE, path |-> cm_config.image.tag.path,
                                      valuePath |-> cm_config.image.tag.valuePath],
          at |-> <<component_name, "controller", "tag">>,
          structural |-> Str(RSplit1(ActualImage(manifest), ":")[2])],
         [name |-> "pullPolicy", field |-> cm_config.image.pullPolicy,
          at |-> <<component_name, "controller", "imagePullPolicy">>,
          structural |-> GetOr(container, "imagePullPolicy", Tok("Always"))],
         [name |-> "resources", field |-> cm_config.resources,
          at |-> <<component_name, "controller", "resources">>,
          structural |-> GetOr(container, "resources", EmptyMap)] }

\* C15: the build of the defaults is never left by an exception; for every
\* mapped field whose path does not resolve a warning is printed and the
\* defaults hold the value of the direct structural lookup, and every other
\* field is in the defaults.
C15_ExtractionFailureFallsBack ==
    /\ pc # "raised"
    /\ pc = "built" =>
          \A f \in FallbackFields :
              IF extract_from_manifest(manifest, f.field.path).ok
              THEN Lookup(values, f.at, 1) # Null
              ELSE f.name \in warnings /\ Lookup(values, f.at, 1) = f.structural

-----------------------------------------------------------------------------
(* get_value_from_path on its own: every document of PathDocs with every   *)
(* well-formed path of at most MaxSegs segments over PathSegs, with and     *)
(* without a trailing split.                                                *)

MaxSegs == 3

PathImage == Str(<<"kserve", "/", "ctl", ":", "v1">>)
PathContainer(image) == Map(("name" :> Tok("manager")) @@ ("image" :> image))
PathWorkload(replicas, containers) ==
    Map("spec" :> Map(("replicas" :> replicas) @@ ("containers" :> List(containers))))
PathDocs ==
    { PathWorkload(Num(1), <<PathContainer(PathImage)>>),
      PathWorkload(Null, <<PathContainer(Null), PathContainer(PathImage)>>),
      PathWorkload(Tok("1"), <<>>),
      Map("spec" :> Null) }
PathSegs ==
    { Seg("spec"), Seg("replicas"), Seg("containers"), Seg("image"),
      SegI("containers", 0), SegI("containers", 1) }
PathSplits == { NoSplit, SplitOp(":", 0), SplitOp(":", 1), SplitOp("/", 2) }
WellFormedPaths ==
    { Path(segs, split) : segs \in SeqsUpTo(PathSegs, MaxSegs) \ {<<>>}, split \in PathSplits }

InitPath ==
    /\ lookup_obj \in PathDocs
    /\ lookup_path \in WellFormedPaths
    /\ lookup_result = Err("none")
    /\ pc = "start"
    /\ kustomize_docs = <<>>
    /\ helm_docs = <<>>
    /\ mappers = <<>>
    /\ exclude_crds = TRUE
    /\ result = Raised
    /\ IdleMain
    /\ IdleGenerator
    /\ IdleWorkload
    /\ IdleConversion
    /\ IdleValues

\* one call get_value_from_path(obj, path)
GetValue ==
    /\ pc = "start"
    /\ lookup_result' = get_value_from_path(lookup_obj, lookup_path)
    /\ pc' = "looked"
    /\ UNCHANGED <<lookup_obj, lookup_path, workloadVars, conversionVars, valuesVars,
                   comparatorVars, mainVars, generatorVars>>

SpecPath == InitPath /\ [][GetValue]_vars

\* the values that lie at the end of the segments segs[i..] below value
RECURSIVE FoundAt(_, _, _)
FoundAt(value, segs, i) ==
    IF i > Len(segs) THEN {value}
    ELSE IF ~Has(value, segs[i].key) THEN {}
    ELSE LET child == value.v[segs[i].key]
             idx == segs[i].idx
         IN IF idx < 0 THEN FoundAt(child, segs, i + 1)
            ELSE IF IsList(child) /\ idx < Len(child.v)
                 THEN FoundAt(child.v[idx + 1], segs, i + 1)
            ELSE IF IsStr(child) /\ idx < Len(child.v)
                 THEN FoundAt(Tok(child.v[idx + 1]), segs, i + 1)
            ELSE {}

\* C16: get_value_from_path on a well-formed path either returns the value
\* that lies at the complete path (the part chosen by the split, when the
\* path has one) or fails with KeyError, IndexError or TypeError.
C16_LookupReturnsValueOrPathError ==
    pc = "looked" =>
        IF lookup_result.ok
        THEN \E found \in FoundAt(lookup_obj, lookup_path.segs, 1) :
                IF lookup_path.split.on
                THEN IsStr(found) /\ IsStr(lookup_result.v)
                ELSE lookup_result.v = found
        ELSE lookup_result.err \in PathErrors

-----------------------------------------------------------------------------
(* Workload Generator: the template of a Deployment or DaemonSet.  The      *)
(* template is kept as its lines: indent is the column of the line, key the *)
(* field the line writes ("" when it writes none), form the kind of line    *)
(* and arg what the line refers to:                                         *)
(*   "text"      key: <arg[1]>           a literal scalar                   *)
(*   "key"       key:                    the header of a block              *)
(*   "item"      - <arg[1]>              an element of a list of scalars    *)
(*   "block"     the lines yaml_to_string gives for value                   *)
(*   "ref"       key: {{ .Values.<arg[1]> }}                                *)
(*   "toYaml"    key: {{- toYaml .Values.<arg[1]> | nindent n }}            *)
(*   "image"     image: "{{ .Values.<arg[1]> }}:{{ .Values.<arg[2]> |       *)
(*               default .Values.<arg[3]> | default .Values.<arg[4]> }}"    *)
(*   "if"        {{- if .Values.<arg[1]> }}                                 *)
(*   "with"      {{- with .Values.<arg[1]> }}                               *)
(*   "toYamlDot" {{- toYaml . | nindent n }}                                *)
(*   "end"       {{- end }}                                                 *)
(*   "include"   {{- include "<arg[1]>.labels" . | nindent n }}             *)

TLine(indent, key, form, arg, n, value) ==
    [indent |-> indent, key |-> key, form |-> form, arg |-> arg, n |-> n, value |-> value]
Text(indent, key, toks) == TLine(indent, key, "text", <<toks>>, 0, Null)
Header(indent, key) == TLine(indent, key, "key", <<>>, 0, Null)
Directive(indent, form, arg, n) == TLine(indent, "", form, arg, n, Null)

\* str(value) inside an f-string
PyFormat(n) ==
    CASE IsStr(n) -> n.v
      [] IsNum(n) \/ IsFloat(n) -> PyStr(n).v
      [] IsMap(n) -> <<"{", "}">>
      [] IsList(n) -> <<"[", "]">>
      [] OTHER -> <<"None">>

\* yaml_to_string(value, indent): the value as a block of YAML at the column
yaml_to_string(value, indent) == <<TLine(indent, "", "block", <<>>, 0, value)>>

\* quote_label_value_if_needed(value): a value that reads as a number is quoted
quote_label_value_if_needed(value) ==
    IF IsStr(value) /\ (value.v = <<"1.0">> \/ (Len(value.v) = 1 /\ IsNumTok(value.v[1])))
    THEN <<"\"">> \o value.v \o <<"\"">>
    ELSE PyFormat(value)

\* add_kustomize_labels(labels): the labels of the manifest as label lines
add_kustomize_labels(labels) ==
    [i \in 1..Len(OrderedKeys(labels)) |->
        Text(4, OrderedKeys(labels)[i],
             quote_label_value_if_needed(labels.v[OrderedKeys(labels)[i]]))]

\* replace_cert_manager_namespace(annotations): the namespace of the
\* certificate an annotation names becomes the namespace of the release
replace_cert_manager_namespace(annotations) ==
    Map([k \in DOMAIN annotations.v |->
            IF k = "cert-manager.io/inject-ca-from" /\ IsStr(annotations.v[k])
            THEN Str(<<"{{ .Release.Namespace }}", "/">>
                     \o RSplit1(annotations.v[k].v, "/")[Len(RSplit1(annotations.v[k].v, "/"))])
            ELSE annotations.v[k]])

\* TemplateRenderer.render_field(field_name, field_config, default_indent)
render_field(field_name, field_config, default_indent) ==
    IF "valuePath" \in DOMAIN field_config
    THEN LET content_indent ==
                 IF "template" \in DOMAIN field_config
                    /\ "indent" \in DOMAIN field_config.template
                 THEN field_config.template.indent
                 ELSE default_indent + 2
         IN << Directive(6, "with", <<field_config.valuePath>>, 0),
               Header(6, field_name),
               Directive(8, "toYamlDot", <<>>, content_indent),
               Directive(6, "end", <<>>, 0) >>
    ELSE <<>>

\* _determine_component_status: is_main
determine_component_status(component, chart) ==
    component \in {chart, "kserve", "llmisvc", "localmodel", "localmodelnode"}

\* _determine_component_status: enabled_path, <<>> for None and for '';
\* config is component_data['config']
enabled_path_of(component, chart, config) ==
    IF determine_component_status(component, chart) THEN <<>>
    ELSE IF "enabled" \in DOMAIN config /\ "valuePath" \in DOMAIN config.enabled
    THEN config.enabled.valuePath
    ELSE <<>>

\* "for x in seq: lines.append(f(x))" for a function f that gives lines
RECURSIVE FlatMap(_, _, _)
FlatMap(F(_), seq, i) ==
    IF i > Len(seq) THEN <<>> ELSE F(seq[i]) \o FlatMap(F, seq, i + 1)

\* _generate_selector_labels(match_labels)
generate_selector_labels(match_labels) ==
    FlatMap(LAMBDA k : <<Text(6, k, quote_label_value_if_needed(match_labels.v[k]))>>,
            OrderedKeys(match_labels), 1)

\* _get_output_filename(workload_type, workload_name)
get_output_filename(wtype, workload_name) ==
    IF wtype = "deployment" THEN <<"deployment.yaml">>
    ELSE <<"daemonset_">> \o workload_name \o <<".yaml">>

\* _generate_pod_metadata(pod_metadata, workload_type)
generate_pod_metadata(pod_metadata, wtype) ==
    LET labels ==
            <<Header(6, "labels")>>
            \o FlatMap(LAMBDA k : <<Text(8, k, quote_label_value_if_needed(
                                                   pod_metadata.v["labels"].v[k]))>>,
                       OrderedKeys(pod_metadata.v["labels"]), 1)
        annotations ==
            IF Has(pod_metadata, "annotations")
            THEN LET processed == replace_cert_manager_namespace(pod_metadata.v["annotations"])
                 IN <<Header(6, "annotations")>>
                    \o FlatMap(LAMBDA k : <<Text(8, k, PyFormat(processed.v[k]))>>,
                               OrderedKeys(processed), 1)
            ELSE <<>>
    IN <<Header(4, "metadata")>>
       \o (IF wtype = "deployment" THEN labels \o annotations ELSE annotations \o labels)

\* a block of _generate_container_spec: "if name in container" then the
\* header and the value
ContainerBlock(container, name) ==
    IF Has(container, name)
    THEN <<Header(8, name)>> \o yaml_to_string(container.v[name], 10)
    ELSE <<>>

\* the command and args of _generate_container_spec: one line per element
ContainerList(container, name) ==
    IF Has(container, name)
    THEN <<Header(8, name)>>
         \o FlatMap(LAMBDA x : <<TLine(8, "", "item", <<PyFormat(x)>>, 0, Null)>>,
                    container.v[name].v, 1)
    ELSE <<>>

\* _generate_container_spec(container, is_main_container, component_config, workload_type)
generate_container_spec(container, is_main_container, component_config, wtype) ==
    LET mapped_image == is_main_container /\ "image" \in DOMAIN component_config
        image ==
            IF mapped_image
            THEN TLine(8, "image", "image",
                       << component_config.image.repository.valuePath,
                          <<"kserve", "version">>,
                          <<component_config.image.tag.valuePath[1], "version">>,
                          component_config.image.tag.valuePath >>, 0, Null)
            ELSE Text(8, "image", <<"\"">> \o PyFormat(container.v["image"]) \o <<"\"">>)
        pull_policy ==
            IF ~Has(container, "imagePullPolicy") THEN <<>>
            ELSE IF mapped_image /\ "pullPolicy" \in DOMAIN component_config.image
            THEN <<TLine(8, "imagePullPolicy", "ref",
                         <<component_config.image.pullPolicy.valuePath>>, 0, Null)>>
            ELSE <<Text(8, "imagePullPolicy", PyFormat(container.v["imagePullPolicy"]))>>
        probes ==
            IF wtype = "deployment"
            THEN ContainerBlock(container, "livenessProbe")
                 \o ContainerBlock(container, "readinessProbe")
            ELSE <<>>
        container_resources ==
            IF is_main_container /\ "resources" \in DOMAIN component_config
            THEN <<TLine(8, "resources", "toYaml",
                         <<component_config.resources.valuePath>>, 10, Null)>>
            ELSE ContainerBlock(container, "resources")
    IN <<TLine(6, "name", "item", <<PyFormat(container.v["name"])>>, 0, Null)>>
       \o <<image>>
       \o pull_policy
       \o ContainerList(container, "command")
       \o (IF wtype = "deployment" THEN ContainerList(container, "args") ELSE <<>>)
       \o ContainerBlock(container, "securityContext")
       \o ContainerBlock(container, "env")
       \o (IF wtype = "deployment" THEN ContainerBlock(container, "ports") ELSE <<>>)
       \o probes
       \o container_resources
       \o ContainerBlock(container, "volumeMounts")

\* the test of _generate_pod_spec_fields for "mapper defined"
IsConfigurable(component_config, field_name) ==
    /\ field_name \in DOMAIN component_config
    /\ "valuePath" \in DOMAIN component_config[field_name]

\* _generate_pod_spec_fields without the special handling of affinity and
\* tolerations: every mapped field goes through render_field
PodSpecField_AlwaysGuarded(pod_spec, component_config, wtype, field_name) ==
    LET field_value == pod_spec.v[field_name]
    IN IF field_name = "containers"
       THEN <<Header(6, "containers")>>
            \o FlatMap(LAMBDA c : generate_container_spec(
                                      c, c.v["name"] = Tok("manager"), component_config, wtype),
                       field_value.v, 1)
       ELSE IF IsConfigurable(component_config, field_name)
       THEN render_field(field_name, component_config[field_name], 6)
       ELSE IF IsMap(field_value) \/ IsList(field_value)
       THEN <<Header(6, field_name)>> \o yaml_to_string(field_value, 8)
       ELSE <<Text(6, field_name, PyFormat(field_value))>>

\* one round of "for field_name, field_value in pod_spec.items()"
PodSpecField(pod_spec, component_config, wtype, field_name) ==
    LET field_value == pod_spec.v[field_name]
    IN IF field_name = "containers"
       THEN <<Header(6, "containers")>>
            \o FlatMap(LAMBDA c : generate_container_spec(
                                      c, c.v["name"] = Tok("manager"), component_config, wtype),
                       field_value.v, 1)
       ELSE IF IsConfigurable(component_config, field_name)
       THEN IF field_name \in {"affinity", "tolerations"}
            THEN <<TLine(6, field_name, "toYaml",
                         <<component_config[field_name].valuePath>>, 8, Null)>>
            ELSE render_field(field_name, component_config[field_name], 6)
       ELSE IF IsMap(field_value) \/ IsList(field_value)
       THEN <<Header(6, field_name)>> \o yaml_to_string(field_value, 8)
       ELSE <<Text(6, field_name, PyFormat(field_value))>>

\* _generate_pod_spec_fields(pod_spec, component_config, workload_type)
generate_pod_spec_fields(pod_spec, component_config, wtype) ==
    FlatMap(LAMBDA f : PodSpecField(pod_spec, component_config, wtype, f),
            OrderedKeys(pod_spec), 1)

\* _generate_workload_header(workload, is_main_component, enabled_path)
generate_workload_header(workload, is_main_arg, enabled_path, chart) ==
    (IF ~is_main_arg /\ enabled_path # <<>>
     THEN <<Directive(0, "if", <<enabled_path>>, 0)>> ELSE <<>>)
    \o << Text(0, "apiVersion", PyFormat(workload.v["apiVersion"])),
          Text(0, "kind", PyFormat(workload.v["kind"])),
          Header(0, "metadata"),
          Text(2, "name", PyFormat(workload.v["metadata"].v["name"])),
          Text(2, "namespace", <<"{{ .Release.Namespace }}">>),
          Header(2, "labels"),
          Directive(4, "include", <<<<chart>>>>, 4) >>
    \o (IF Has(workload.v["metadata"], "labels")
        THEN add_kustomize_labels(workload.v["metadata"].v["labels"]) ELSE <<>>)

\* the subscripts of _generate_workload and of the functions it calls find
\* what they name: no KeyError and no TypeError is raised
WorkloadSubscriptsResolve(workload, component_config) ==
    /\ Has(workload, "apiVersion") /\ Has(workload, "kind")
    /\ Has(workload, "metadata") /\ Has(workload.v["metadata"], "name")
    /\ Has(workload, "spec")
    /\ Has(workload.v["spec"], "selector")
    /\ Has(workload.v["spec"].v["selector"], "matchLabels")
    /\ IsMap(workload.v["spec"].v["selector"].v["matchLabels"])
    /\ Has(workload.v["spec"], "template")
    /\ Has(workload.v["spec"].v["template"], "metadata")
    /\ Has(workload.v["spec"].v["template"].v["metadata"], "labels")
    /\ IsMap(workload.v["spec"].v["template"].v["metadata"].v["labels"])
    /\ Has(workload.v["spec"].v["template"], "spec")
    /\ LET pod_spec == workload.v["spec"].v["template"].v["spec"]
       IN /\ IsMap(pod_spec)
          /\ Has(pod_spec, "containers") =>
                /\ IsList(pod_spec.v["containers"])
                /\ \A i \in DOMAIN pod_spec.v["containers"].v :
                      LET c == pod_spec.v["containers"].v[i]
                          mapped == c.v["name"] = Tok("manager")
                                    /\ "image" \in DOMAIN component_config
                      IN /\ Has(c, "name")
                         /\ IF mapped
                            THEN /\ "repository" \in DOMAIN component_config.image
                                 /\ "valuePath" \in DOMAIN component_config.image.repository
                                 /\ "tag" \in DOMAIN component_config.image
                                 /\ "valuePath" \in DOMAIN component_config.image.tag
                            ELSE Has(c, "image")
                         /\ (c.v["name"] = Tok("manager") /\ "resources" \in DOMAIN component_config)
                                => "valuePath" \in DOMAIN component_config.resources

\* _generate_workload: the template, or the exception that leaves it
generate_workload(workload, component_config, component, chart, wtype, enabled_path) ==
    IF ~WorkloadSubscriptsResolve(workload, component_config)
    THEN [raised |-> TRUE, lines |-> <<>>, filename |-> <<>>]
    ELSE LET is_main == determine_component_status(component, chart)
         IN [raised |-> FALSE,
             lines |->
                generate_workload_header(workload, is_main, enabled_path, chart)
                \o <<Header(0, "spec"), Header(2, "selector"), Header(4, "matchLabels")>>
                \o generate_selector_labels(workload.v["spec"].v["selector"].v["matchLabels"])
                \o <<Header(2, "template")>>
                \o generate_pod_metadata(workload.v["spec"].v["template"].v["metadata"], wtype)
                \o <<Header(4, "spec")>>
                \o generate_pod_spec_fields(workload.v["spec"].v["template"].v["spec"],
                                            component_config, wtype)
                \o (IF is_main THEN <<>> ELSE <<Directive(0, "end", <<>>, 0)>>),
             filename |-> get_output_filename(wtype, PyFormat(workload.v["metadata"].v["name"]))]

-----------------------------------------------------------------------------
(* The template of one workload: every workload of WorkloadManifests with   *)
(* every controllerManager / nodeAgent entry of WorkloadConfigs.            *)

PodSecurityContext ==
    Map(("runAsNonRoot" :> Tok("true"))
        @@ ("seccompProfile" :> Map("type" :> Tok("RuntimeDefault"))))

\* the fields a pod spec can have besides its containers
PodExtras ==
    { <<>>,
      ("serviceAccountName" :> Tok("kserve-sa")) @@ ("terminationGracePeriodSeconds" :> Num(1)),
      ("securityContext" :> PodSecurityContext),
      ("nodeSelector" :> Map("disk" :> Tok("ssd"))) @@ ("affinity" :> EmptyMap),
      ("affinity" :> Map("nodeAffinity" :> Map("weight" :> Num(1))))
          @@ ("tolerations" :> List(<<>>)),
      ("tolerations" :> List(<<Map("key" :> Tok("gpu"))>>))
          @@ ("securityContext" :> PodSecurityContext) }

\* the fields a container can have besides its name and image
ContainerExtras ==
    { <<>>,
      ("imagePullPolicy" :> Tok("Always")) @@ ("resources" :> Map("limits" :> Map("cpu" :> Tok("100m")))),
      ("args" :> List(<<Tok("--leader-elect")>>))
          @@ ("ports" :> List(<<Map("containerPort" :> Num(1))>>)),
      ("lifecycle" :> Map("preStop" :> Map("sleep" :> Num(1))))
          @@ ("securityContext" :> Map("privileged" :> Tok("false"))) }

\* the fields a workload spec can have besides selector and template
SpecExtras(kind) ==
    IF kind = "Deployment"
    THEN { <<>>, ("replicas" :> Num(1)) }
    ELSE { <<>>, ("updateStrategy" :> Map("type" :> Tok("OnDelete"))) }

WorkloadManifest(kind, spec_extra, pod_extra, container_extra) ==
    Map(("apiVersion" :> Str(<<"apps", "/", "v1">>))
        @@ ("kind" :> Tok(kind))
        @@ ("metadata" :> Meta("kserve", "kserve-controller-manager", <<>>))
        @@ ("spec" :> Map(
               spec_extra
               @@ ("selector" :> Map("matchLabels" :> Map("app" :> Tok("manager"))))
               @@ ("template" :> Map(
                      ("metadata" :> Map("labels" :> Map("app" :> Tok("manager"))))
                      @@ ("spec" :> Map(
                             pod_extra
                             @@ ("containers" :> List(<<
                                    Map(container_extra
                                        @@ ("name" :> Tok("manager"))
                                        @@ ("image" :> Str(<<"kserve", "/", "ctl", ":", "v1">>)))
                                 >>)))))))))

WorkloadManifests ==
    { WorkloadManifest(kind, se, pe, ce) :
        kind \in {"Deployment"}, se \in SpecExtras("Deployment"),
        pe \in PodExtras, ce \in ContainerExtras }
    \cup
    { WorkloadManifest(kind, se, pe, ce) :
        kind \in {"DaemonSet"}, se \in SpecExtras("DaemonSet"),
        pe \in PodExtras, ce \in ContainerExtras }

PodSpecPath(field) ==
    Path(<<Seg("spec"), Seg("template"), Seg("spec"), Seg(field)>>, NoSplit)

\* the pod-spec entries a controllerManager / nodeAgent entry can have: an
\* entry with a valuePath, and the nested entry of securityContext
PodSpecEntries(component) ==
    { <<>>,
      [nodeSelector |-> Field(TRUE, PodSpecPath("nodeSelector"),
                              <<component, "controller", "nodeSelector">>)],
      [affinity |-> Field(TRUE, PodSpecPath("affinity"),
                          <<component, "controller", "affinity">>),
       tolerations |-> Field(TRUE, PodSpecPath("tolerations"),
                             <<component, "controller", "tolerations">>),
       nodeSelector |-> Field(TRUE, PodSpecPath("nodeSelector"),
                              <<component, "controller", "nodeSelector">>)],
      [securityContext |->
          [runAsNonRoot |-> Field(TRUE,
                                  Path(<<Seg("spec"), Seg("template"), Seg("spec"),
                                         Seg("securityContext"), Seg("runAsNonRoot")>>, NoSplit),
                                  <<component, "controller", "securityContext", "runAsNonRoot">>)],
       tolerations |-> Field(TRUE, PodSpecPath("tolerations"),
                             <<component, "controller", "tolerations">>)] }

WorkloadConfigs(component) ==
    { image_part @@ entries :
        image_part \in { <<>>,
                         [image |-> [repository |-> Field(TRUE, RepoPath, <<component, "controller", "image">>),
                                     tag |-> Field(TRUE, TagPath, <<component, "controller", "tag">>),
                                     pullPolicy |-> Field(TRUE, PolicyPath,
                                                          <<component, "controller", "imagePullPolicy">>)],
                          resources |-> Field(TRUE, ResPath, <<component, "controller", "resources">>)] },
        entries \in PodSpecEntries(component) }

InitWorkload ==
    /\ manifest \in WorkloadManifests
    /\ chart_name = "kserve"
    /\ component_name \in {"kserve", "localmodel-agent"}
    /\ cm_config \in WorkloadConfigs(component_name)
    /\ workload_type = (IF manifest.v["kind"] = Tok("Deployment") THEN "deployment" ELSE "daemonset")
    /\ workload_template = <<>>
    /\ app_version = "latest"
    /\ values = Null
    /\ version_anchor_fields = <<>>
    /\ image_template = <<>>
    /\ rendered_image = <<>>
    /\ yaml_content = <<>>
    /\ warnings = {}
    /\ escape_obj = Null
    /\ resources = <<>>
    /\ templates = <<>>
    /\ pc = "start"
    /\ kustomize_docs = <<>>
    /\ helm_docs = <<>>
    /\ mappers = <<>>
    /\ exclude_crds = TRUE
    /\ result = Raised
    /\ IdleMain
    /\ IdlePath
    /\ IdleConversion
    /\ IdleValues

\* component_data['config'] of a component whose mapping declares the
\* enabled parameter <component>.enabled
DeclaredConfig(component, cfg) ==
    [enabled |-> [valuePath |-> <<component, "enabled">>], controllerManager |-> cfg]

\* WorkloadGenerator.generate_deployment / generate_daemonset: the template
\* is written
GenerateWorkload ==
    /\ pc = "start"
    /\ \E generated \in {generate_workload(manifest, cm_config, component_name,
                                           chart_name, workload_type,
                                           enabled_path_of(component_name, chart_name,
                                               DeclaredConfig(component_name, cm_config)))} :
          /\ ~generated.raised
          /\ workload_template' = generated.lines
    /\ pc' = "written"
    /\ UNCHANGED <<workload_type, pathVars, conversionVars, valuesVars, comparatorVars, mainVars, generatorVars>>

SpecWorkload == InitWorkload /\ [][GenerateWorkload]_vars

\* the value a YAML reader gives the text of a scalar
ReadScalar(toks) ==
    IF Len(toks) = 1 /\ IsNumTok(toks[1]) THEN Num(NumOfTok(toks[1]))
    ELSE IF Len(toks) >= 2 /\ toks[1] = "\"" /\ toks[Len(toks)] = "\""
    THEN Str(SubSeq(toks, 2, Len(toks) - 1))
    ELSE Str(toks)

\* the lines write the field as a literal with this value at the column
EmittedLiteral(lines, indent, field, value) ==
    \E i \in DOMAIN lines :
        /\ lines[i].indent = indent
        /\ lines[i].key = field
        /\ \/ lines[i].form = "text" /\ ReadScalar(lines[i].arg[1]) = value
           \/ /\ lines[i].form = "key"
              /\ i < Len(lines)
              /\ lines[i + 1].form = "block"
              /\ lines[i + 1].value = value
           \/ /\ lines[i].form = "key"
              /\ IsList(value)
              /\ i + Len(value.v) <= Len(lines)
              /\ \A j \in DOMAIN value.v :
                    /\ lines[i + j].form = "item"
                    /\ ReadScalar(lines[i + j].arg[1]) = value.v[j]

PodSpecOf(m) == m.v["spec"].v["template"].v["spec"]

\* the container fields the entry maps for the container
MappedContainerFields(component_config, container) ==
    IF container.v["name"] # Tok("manager") THEN {}
    ELSE (IF "image" \in DOMAIN component_config
          THEN {"image"} \cup (IF "pullPolicy" \in DOMAIN component_config.image
                               THEN {"imagePullPolicy"} ELSE {})
          ELSE {})
         \cup (IF "resources" \in DOMAIN component_config THEN {"resources"} ELSE {})

UnmappedPodFieldsKept ==
    \A f \in DOMAIN PodSpecOf(manifest).v \ {"containers"} :
        f \notin DOMAIN cm_config
            => EmittedLiteral(workload_template, 6, f, PodSpecOf(manifest).v[f])

UnmappedContainerFieldsKept ==
    \A i \in DOMAIN PodSpecOf(manifest).v["containers"].v :
        LET c == PodSpecOf(manifest).v["containers"].v[i]
        IN \A f \in DOMAIN c.v \ ({"name"} \cup MappedContainerFields(cm_config, c)) :
               EmittedLiteral(workload_template, 8, f, c.v[f])

UnmappedSpecFieldsKept ==
    \A f \in DOMAIN manifest.v["spec"].v \ {"selector", "template"} :
        EmittedLiteral(workload_template, 2, f, manifest.v["spec"].v[f])

\* C18: every field of the workload manifest without a mapping entry, at
\* pod-spec level, at container level and at workload-spec level, is in the
\* template as a literal with the value it has in the manifest.
C18_UnmappedFieldsKeptLiteral ==
    pc = "written" =>
        /\ UnmappedPodFieldsKept
        /\ UnmappedContainerFieldsKept
        /\ UnmappedSpecFieldsKept

\* the entry of a pod-spec field is nested: it has no valuePath of its own
\* and holds entries of sub-fields
IsNested(component_config, field_name) ==
    /\ field_name \in DOMAIN component_config
    /\ "valuePath" \notin DOMAIN component_config[field_name]
    /\ \E sub \in DOMAIN component_config[field_name] :
          {"path", "valuePath"} \subseteq DOMAIN component_config[field_name][sub]

\* C19: a pod-spec field whose entry is nested is written as its key, each
\* mapped sub-field under it as a reference to its valuePath, each unmapped
\* sub-field under it as a literal.
C19_NestedEntryRendersSubFieldReference ==
    pc = "written" =>
        \A f \in DOMAIN PodSpecOf(manifest).v \ {"containers"} :
            (IsNested(cm_config, f) /\ IsMap(PodSpecOf(manifest).v[f])) =>
                /\ \E i \in DOMAIN workload_template : workload_template[i] = Header(6, f)
                /\ \A sub \in DOMAIN PodSpecOf(manifest).v[f].v :
                      IF sub \in DOMAIN cm_config[f]
                      THEN \E i \in DOMAIN workload_template :
                              workload_template[i] =
                                  TLine(8, sub, "ref", <<cm_config[f][sub].valuePath>>, 0, Null)
                      ELSE EmittedLiteral(workload_template, 8, sub,
                                          PodSpecOf(manifest).v[f].v[sub])

\* the number of "with" guards that are open at line i of the template
WithDepth(lines, i) ==
    Cardinality({j \in 1..(i - 1) : lines[j].form = "with"})
    - Cardinality({j \in 1..(i - 1) : lines[j].form = "end"})

\* the lines that write the pod-spec field
FieldLines(lines, field) ==
    {i \in DOMAIN lines : lines[i].indent = 6 /\ lines[i].key = field}

\* the pod-spec fields of the manifest that the entry maps with a valuePath
MappedPodFields ==
    {f \in DOMAIN PodSpecOf(manifest).v \ {"containers"} :
        f \in DOMAIN cm_config /\ "valuePath" \in DOMAIN cm_config[f]}

\* C20: a pod-spec field of the manifest that is mapped with a valuePath is
\* written, when it is affinity or tolerations, as the one line
\* '<field>: {{- toYaml .Values.<valuePath> | nindent 8 }}' outside every
\* with guard, whatever its value in the manifest; any other such field is
\* written as its key and '{{- toYaml . | nindent 8 }}' between
\* '{{- with .Values.<valuePath> }}' and '{{- end }}'.
C20_AffinityTolerationsUnguarded ==
    pc = "written" =>
        \A f \in MappedPodFields :
            \E i \in DOMAIN workload_template :
                /\ FieldLines(workload_template, f) = {i}
                /\ IF f \in {"affinity", "tolerations"}
                   THEN /\ workload_template[i] =
                              TLine(6, f, "toYaml", <<cm_config[f].valuePath>>, 8, Null)
                        /\ WithDepth(workload_template, i) = 0
                   ELSE /\ i > 1 /\ i + 2 <= Len(workload_template)
                        /\ workload_template[i - 1] =
                              Directive(6, "with", <<cm_config[f].valuePath>>, 0)
                        /\ workload_template[i] = Header(6, f)
                        /\ workload_template[i + 1] = Directive(8, "toYamlDot", <<>>, 8)
                        /\ workload_template[i + 2] = Directive(6, "end", <<>>, 0)
                        /\ WithDepth(workload_template, i) = 1

\* a template was written for a workload whose affinity is the empty map and
\* whose tolerations are the empty list or absent, both mapped with a
\* valuePath, next to a mapped nodeSelector
C20_Witness ==
    /\ pc = "written"
    /\ {"affinity", "nodeSelector"} \subseteq MappedPodFields
    /\ PodSpecOf(manifest).v["affinity"] = EmptyMap
    /\ \E i \in DOMAIN workload_template : workload_template[i].form = "with"

-----------------------------------------------------------------------------
(* convert.main: one conversion run after the mapping and the manifests are *)
(* read.  The chart has the components of the mapping, each with the        *)
(* Deployment of its controllerManager; it has no common resources, no      *)
(* runtimes and no other resources.  output_files holds the names of the    *)
(* files the run has written, each as its path below the output directory.  *)

MaxComponents == 2

ConversionNames == <<"kserve", "localmodel", "llmisvc">>

\* a component of the mapping: the controllerManager entry, the enabled
\* valuePath (<<>> when the mapping has none) and the Deployment
Component(name, config, enabled, deployment) ==
    [name |-> name, config |-> config, enabled |-> enabled, deployment |-> deployment]

ConversionDeployments ==
    { WorkloadManifest("Deployment", <<>>, pe,
                       ("imagePullPolicy" :> Tok("Always"))
                       @@ ("resources" :> Map("limits" :> Map("cpu" :> Tok("100m"))))) :
        pe \in { <<>>, "serviceAccountName" :> Tok("kserve-sa") } }

ConversionConfigs(component) ==
    { [image |-> [repository |-> Field(TRUE, rp, <<component, "controller", "image">>),
                  tag |-> [hasPath |-> TRUE, path |-> TagPath,
                           valuePath |-> <<component, "controller", "tag">>,
                           useVersionAnchor |-> FALSE],
                  pullPolicy |-> Field(TRUE, PolicyPath, <<component, "controller", "imagePullPolicy">>)],
       resources |-> Field(TRUE, ResPath, <<component, "controller", "resources">>)] :
      rp \in {RepoPath, NotIndexable("image")} }

ComponentsNamed(name) ==
    { Component(name, cfg, enabled, d) :
        cfg \in ConversionConfigs(name),
        enabled \in {<<>>, <<name, "enabled">>},
        d \in ConversionDeployments }

ConversionInputs ==
    UNION { {cs \in [1..n -> UNION {ComponentsNamed(ConversionNames[i]) : i \in 1..n}] :
                \A i \in 1..n : cs[i].name = ConversionNames[i]} :
            n \in 1..(IF MaxComponents < Len(ConversionNames)
                      THEN MaxComponents ELSE Len(ConversionNames)) }

\* the subscripts of _generate_deployment_template find what they name
deployment_template_resolves(c, chart) ==
    LET deployment == c.deployment
        cm == c.config
    IN /\ Has(deployment, "apiVersion") /\ Has(deployment, "kind")
       /\ Has(deployment, "metadata") /\ Has(deployment.v["metadata"], "name")
       /\ is_main_component(c.name, chart) \/ c.enabled # <<>>
       /\ Has(deployment, "spec")
       /\ Has(deployment.v["spec"], "selector")
       /\ Has(deployment.v["spec"].v["selector"], "matchLabels")
       /\ Has(deployment.v["spec"], "template")
       /\ Has(deployment.v["spec"].v["template"], "metadata")
       /\ Has(deployment.v["spec"].v["template"].v["metadata"], "labels")
       /\ Has(deployment.v["spec"].v["template"], "spec")
       /\ Has(PodSpecOf(deployment), "serviceAccountName")
       /\ Has(PodSpecOf(deployment), "containers")
       /\ \A i \in DOMAIN PodSpecOf(deployment).v["containers"].v :
             LET container == PodSpecOf(deployment).v["containers"].v[i]
             IN /\ Has(container, "name")
                /\ IF "image" \in DOMAIN cm
                   THEN /\ "valuePath" \in DOMAIN cm.image.repository
                        /\ "valuePath" \in DOMAIN cm.image.tag
                   ELSE Has(container, "image")
                /\ "resources" \in DOMAIN cm => "valuePath" \in DOMAIN cm.resources

\* ValuesGenerator._build_values leaves with an exception
build_values_raises(cs, chart_version) ==
    \E i \in DOMAIN cs :
        build_controller_manager_values(cs[i].name, cs[i].config, cs[i].deployment,
                                        chart_version).raised

DeploymentFile(name) == <<"templates", name, "deployment.yaml">>

InitConvert ==
    /\ components \in ConversionInputs
    /\ component_idx = 0
    /\ output_files = {}
    /\ convert_exit = -1
    /\ chart_name = "kserve"
    /\ app_version = "v1"
    /\ pc = "start"
    /\ component_name = ""
    /\ escape_obj = Null
    /\ resources = <<>>
    /\ templates = <<>>
    /\ manifest = Null
    /\ cm_config = <<>>
    /\ values = Null
    /\ version_anchor_fields = <<>>
    /\ image_template = <<>>
    /\ rendered_image = <<>>
    /\ yaml_content = <<>>
    /\ warnings = {}
    /\ kustomize_docs = <<>>
    /\ helm_docs = <<>>
    /\ mappers = <<>>
    /\ exclude_crds = TRUE
    /\ result = Raised
    /\ IdleMain
    /\ IdlePath
    /\ IdleWorkload
    /\ IdleValues

\* ChartGenerator.generate: the directories are made and Chart.yaml is written
GenerateChartYaml ==
    /\ pc = "start"
    /\ output_files' = output_files \cup {<<"Chart.yaml">>}
    /\ component_idx' = 1
    /\ pc' = "components"
    /\ UNCHANGED <<components, convert_exit, pathVars, workloadVars, valuesVars,
                   comparatorVars, mainVars, generatorVars>>

\* _generate_component_templates: one round of the loop, deployment.yaml of
\* the component is written, or a subscript of the template raises
GenerateDeploymentTemplate ==
    /\ pc = "components"
    /\ component_idx <= Len(components)
    /\ IF deployment_template_resolves(components[component_idx], chart_name)
       THEN /\ output_files' = output_files \cup {DeploymentFile(components[component_idx].name)}
            /\ component_idx' = component_idx + 1
            /\ pc' = pc
       ELSE /\ pc' = "raised"
            /\ UNCHANGED <<output_files, component_idx>>
    /\ UNCHANGED <<components, convert_exit, pathVars, workloadVars, valuesVars,
                   comparatorVars, mainVars, generatorVars>>

\* _generate_helpers and _generate_notes, after the last component
GenerateHelpers ==
    /\ pc = "components"
    /\ component_idx > Len(components)
    /\ output_files' = output_files \cup {<<"templates", "_helpers.tpl">>,
                                          <<"templates", "NOTES.txt">>}
    /\ pc' = "values"
    /\ UNCHANGED <<components, component_idx, convert_exit, pathVars, workloadVars, valuesVars,
                   comparatorVars, mainVars, generatorVars>>

\* ValuesGenerator.generate: the values are built and values.yaml is
\* written, main returns; or the build of the values raises
GenerateValues ==
    /\ pc = "values"
    /\ \E raises \in {build_values_raises(components, app_version)} :
          IF raises
          THEN /\ pc' = "raised"
               /\ UNCHANGED <<output_files, convert_exit>>
          ELSE /\ output_files' = output_files \cup {<<"values.yaml">>}
               /\ convert_exit' = 0
               /\ pc' = "done"
    /\ UNCHANGED <<components, component_idx, pathVars, workloadVars, valuesVars,
                   comparatorVars, mainVars, generatorVars>>

\* "except Exception" of main: the error is printed and the exit status is 1
ConversionFails ==
    /\ pc = "raised"
    /\ convert_exit' = 1
    /\ pc' = "failed"
    /\ UNCHANGED <<components, component_idx, output_files, pathVars, workloadVars, valuesVars,
                   comparatorVars, mainVars, generatorVars>>

NextConvert ==
    \/ GenerateChartYaml
    \/ GenerateDeploymentTemplate
    \/ GenerateHelpers
    \/ GenerateValues
    \/ ConversionFails

SpecConvert == InitConvert /\ [][NextConvert]_vars

\* Chart.yaml, the template of every component, the helpers and values.yaml
CompleteChart ==
    {<<"Chart.yaml">>, <<"templates", "_helpers.tpl">>, <<"templates", "NOTES.txt">>,
     <<"values.yaml">>}
    \cup {DeploymentFile(components[i].name) : i \in DOMAIN components}

\* C17: a run that failed has written nothing to the output directory, a
\* run that succeeded has written the complete chart.
C17_NoPartialArtifacts ==
    /\ convert_exit = 1 => output_files = {}
    /\ convert_exit = 0 => output_files = CompleteChart

-----------------------------------------------------------------------------
(***************************************************************************)
(* ValuesGenerator over a whole mapping (values_gen.py).  The mapping is a *)
(* function from its top-level keys to their entries: "metadata" and the   *)
(* components.  The mappings considered have no inferenceServiceConfig and *)
(* no runtimes section and their components no nodeAgent entry, so that    *)
(* the ConfigMap builder, the runtime builder and the node agent builder   *)
(* add nothing.                                                            *)
(***************************************************************************)

MaxBuilds == 2

\* dict.get(k, default) on an entry of the mapping
EntryGet(entry, k, default) == IF k \in DOMAIN entry THEN entry[k] ELSE default

\* the controller key of _build_controller_manager_values: the second part
\* of the repository valuePath
controller_key_of(cm_config_arg, default_key) ==
    IF "image" \in DOMAIN cm_config_arg /\ "repository" \in DOMAIN cm_config_arg.image
    THEN LET value_path == EntryGet(cm_config_arg.image.repository, "valuePath", <<>>)
         IN IF Len(value_path) >= 2 THEN value_path[2] ELSE default_key
    ELSE default_key

\* values.update(cm_values) of build_component_values and what the builder
\* has appended to version_anchor_fields
ComponentValues(cm, enabled_values, version_anchors) ==
    [raised |-> cm.raised,
     values |-> Map(cm.values.v @@ enabled_values),
     anchors |-> version_anchors \o cm.anchors,
     warnings |-> cm.warnings]

\* ComponentBuilder.build_component_values: the values of the component and
\* the anchor paths it appends to version_anchor_fields
build_component_values(component, component_config, mfs, chart, chart_version) ==
    ComponentValues(
        IF "controllerManager" \notin DOMAIN component_config
        THEN [raised |-> FALSE, values |-> EmptyMap, anchors |-> <<>>, warnings |-> {}]
        ELSE IF component \in DOMAIN mfs
        THEN build_controller_manager_values(component, component_config.controllerManager,
                                             mfs[component], chart_version)
        ELSE [raised |-> FALSE,
              values |-> Map(controller_key_of(component_config.controllerManager,
                                               "controllerManager") :> EmptyMap),
              anchors |-> <<>>, warnings |-> {}],
        IF ~is_main_component(component, chart) /\ "enabled" \in DOMAIN component_config
        THEN ("enabled" :> Bool(FALSE)) ELSE <<>>,
        IF "version" \in DOMAIN component_config
           /\ EntryGet(component_config.version, "useVersionAnchor", FALSE)
        THEN <<<<component, "version">>>> ELSE <<>>)

\* ValuesGenerator._build_component_values of values_generator.py, the
\* module that the package of the same name shadows
_build_component_values(component, component_config, chart) ==
    LET enabled_values ==
            IF ~is_main_component(component, chart) /\ "enabled" \in DOMAIN component_config
            THEN ("enabled" :> EntryGet(component_config.enabled, "defaultValue", Bool(TRUE)))
            ELSE <<>>
        cm_config_arg == component_config.controllerManager
        img_config == cm_config_arg.image
        image_values ==
            (IF "repository" \in DOMAIN img_config
             THEN ("repository" :> EntryGet(img_config.repository, "defaultValue", Str(<<>>)))
             ELSE <<>>)
            @@ (IF "tag" \in DOMAIN img_config
                THEN ("tag" :> EntryGet(img_config.tag, "defaultValue", Tok("latest")))
                ELSE <<>>)
            @@ (IF "pullPolicy" \in DOMAIN img_config
                THEN ("pullPolicy" :> EntryGet(img_config.pullPolicy, "defaultValue", Tok("Always")))
                ELSE <<>>)
        cm_values ==
            (IF "image" \in DOMAIN cm_config_arg THEN ("image" :> Map(image_values)) ELSE <<>>)
            @@ (IF "resources" \in DOMAIN cm_config_arg
                THEN ("resources" :> EntryGet(cm_config_arg.resources, "defaultValue", EmptyMap))
                ELSE <<>>)
    IN Map(enabled_values
           @@ (IF "controllerManager" \in DOMAIN component_config
               THEN ("controllerManager" :> Map(cm_values)) ELSE <<>>))

\* the component builds of _build_values in their order: the component
\* named as the chart, localmodel, localmodelnode
BuildSteps(m) ==
    (IF m["metadata"].name \in DOMAIN m THEN <<[into |-> "chart", component |-> m["metadata"].name]>>
     ELSE <<>>)
    \o (IF "localmodel" \in DOMAIN m THEN <<[into |-> "localmodel", component |-> "localmodel"]>>
        ELSE <<>>)
    \o (IF "localmodelnode" \in DOMAIN m
        THEN <<[into |-> "update", component |-> "localmodelnode"]>> ELSE <<>>)

\* the sections of _build_values that no builder fills: certManager and
\* llmisvcConfigs (from the key llmisvcConfigs or the old key llmisvc)
FlagValues(m) ==
    (IF "certManager" \in DOMAIN m /\ "enabled" \in DOMAIN m["certManager"]
     THEN ("certManager" :> Map("enabled" :> Bool(TRUE))) ELSE <<>>)
    @@ (IF m["metadata"].name # "llmisvc"
           /\ \/ "llmisvcConfigs" \in DOMAIN m /\ "enabled" \in DOMAIN m["llmisvcConfigs"]
              \/ /\ "llmisvcConfigs" \notin DOMAIN m
                 /\ "llmisvc" \in DOMAIN m /\ "enabled" \in DOMAIN m["llmisvc"]
        THEN ("llmisvcConfigs" :> Map("enabled" :> Bool(FALSE))) ELSE <<>>)

\* values[<section>] = <built> for the chart's component and for localmodel,
\* values['localmodel'].update(<built>) for localmodelnode
MergeBuilt(acc, step, built) ==
    [raised |-> built.raised,
     values |-> Put(acc.values,
                    IF step.into = "chart" THEN step.component ELSE "localmodel",
                    IF step.into = "update"
                    THEN Map(built.values.v @@ GetOr(acc.values, "localmodel", EmptyMap).v)
                    ELSE built.values),
     anchors |-> acc.anchors \o built.anchors,
     warnings |-> acc.warnings \cup built.warnings]

RECURSIVE BuildComponents(_, _, _, _, _)
BuildComponents(m, mfs, steps, i, acc) ==
    IF i > Len(steps) \/ acc.raised THEN acc
    ELSE BuildComponents(m, mfs, steps, i + 1,
                         MergeBuilt(acc, steps[i],
                                    build_component_values(
                                        steps[i].component, m[steps[i].component], mfs,
                                        m["metadata"].name,
                                        EntryGet(m["metadata"], "appVersion", "latest"))))

\* ValuesGenerator._build_values: the values, and what the builds append to
\* the version_anchor_fields of the component builder
build_values(m, mfs) ==
    BuildComponents(m, mfs, BuildSteps(m), 1,
                    [raised |-> FALSE, values |-> Map(FlagValues(m)), anchors |-> <<>>,
                     warnings |-> {}])

\* the call of _build_values that opens show_plan and generate: an exception
\* of a builder leaves the operation
BuildMappingValues ==
    /\ pc \in {"start", "planned"}
    /\ builds < MaxBuilds
    /\ \E operation \in {"show_plan", "generate"},
          built \in {build_values(mapping, manifests)} :
          /\ builder_fields' = builder_fields \o built.anchors
          /\ IF built.raised
             THEN /\ pc' = "raised"
                  /\ UNCHANGED <<values, warnings>>
             ELSE /\ values' = built.values
                  /\ warnings' = built.warnings
                  /\ pc' = operation
    /\ builds' = builds + 1
    /\ UNCHANGED <<mapping, manifests, pathVars, workloadVars, conversionVars, comparatorVars,
                   mainVars, escape_obj, chart_name, component_name, resources, templates,
                   manifest, cm_config, app_version, version_anchor_fields, image_template,
                   rendered_image, yaml_content>>

\* ValuesGenerator.show_plan after the build: the keys are printed
ShowPlan ==
    /\ pc = "show_plan"
    /\ pc' = "planned"
    /\ UNCHANGED <<converterVars, comparatorVars, mainVars, generatorVars>>

\* ValuesGenerator.generate after the build: the anchor fields of the
\* builders collected, the values dumped, the anchors applied to the text
GenerateValuesFile ==
    /\ pc = "generate"
    /\ version_anchor_fields' = builder_fields
    /\ yaml_content' = apply_version_anchors(yaml_dump(values), app_version, builder_fields)
    /\ pc' = "generated"
    /\ UNCHANGED <<converterVars, comparatorVars, mainVars, escape_obj, chart_name, component_name,
                   resources, templates, manifest, cm_config, app_version, values, image_template,
                   rendered_image, warnings>>

\* an entry of a controllerManager section: where the value is in the
\* workload, where it goes in the values, and its defaultValue
DefaultEntry(path, valuePath, defaultValue) ==
    [hasPath |-> TRUE, path |-> path, valuePath |-> valuePath, defaultValue |-> defaultValue]

DefaultRepository(component) == Str(<<"kserve/", component>>)
DefaultTag == Tok("v9")
DefaultResources == Map(Cpu(2))

ControllerEntry(component, anchor) ==
    [image |->
        [repository |-> DefaultEntry(RepoPath, <<component, "controllerManager", "image", "repository">>,
                                     DefaultRepository(component)),
         tag |-> DefaultEntry(TagPath, <<component, "controllerManager", "image", "tag">>, DefaultTag)
                 @@ [useVersionAnchor |-> anchor]],
     resources |-> DefaultEntry(ResPath, <<component, "controllerManager", "resources">>,
                                DefaultResources)]

\* the entries of a component: with or without an enabled entry (default
\* true or false), with or without an anchored version entry
MappingEntries(component, Enabled, Version) ==
    { (IF en = "none" THEN <<>>
       ELSE [enabled |-> [valuePath |-> <<component, "enabled">>,
                          defaultValue |-> Bool(en = "true")]])
      @@ (IF ver = "none" THEN <<>>
          ELSE [version |-> [valuePath |-> <<component, "version">>,
                             useVersionAnchor |-> ver = "anchor"]])
      @@ [controllerManager |-> ControllerEntry(component, anchor)] :
      en \in Enabled, ver \in Version, anchor \in BOOLEAN }

\* the mappings: a chart named kserve or localmodel with the component
\* kserve, and optionally localmodel, localmodelnode and certManager
Mappings ==
    { ("metadata" :> [name |-> chart, appVersion |-> "v1"])
      @@ ("kserve" :> kserve)
      @@ (IF localmodel = <<>> THEN <<>> ELSE ("localmodel" :> localmodel))
      @@ (IF node = <<>> THEN <<>> ELSE ("localmodelnode" :> node))
      @@ (IF cert THEN ("certManager" :> [enabled |-> [valuePath |-> <<"certManager", "enabled">>]])
          ELSE <<>>) :
      chart \in {"kserve", "localmodel"},
      kserve \in MappingEntries("kserve", {"none", "true"}, {"anchor"}),
      localmodel \in {<<>>} \cup MappingEntries("localmodel", {"none", "true", "false"},
                                                  {"none", "anchor"}),
      node \in {<<>>} \cup MappingEntries("localmodelnode", {"true"}, {"none"}),
      cert \in BOOLEAN }

Components(m) == DOMAIN m \ {"metadata", "certManager"}

\* the state after ValuesGenerator(mapping, manifests, output_dir): the
\* manifests are empty or hold the controller of every component
InitValues ==
    /\ mapping \in Mappings
    /\ manifests \in {<<>>, [c \in Components(mapping) |-> DefaultsWorkload(Img("latest"), "", Cpu(1))]}
    /\ builder_fields = <<>>
    /\ builds = 0
    /\ app_version = mapping["metadata"].appVersion
    /\ values = Null
    /\ warnings = {}
    /\ version_anchor_fields = <<>>
    /\ yaml_content = <<>>
    /\ manifest = Null
    /\ cm_config = <<>>
    /\ image_template = <<>>
    /\ rendered_image = <<>>
    /\ escape_obj = Null
    /\ chart_name = ""
    /\ component_name = ""
    /\ resources = <<>>
    /\ templates = <<>>
    /\ pc = "start"
    /\ result = Raised
    /\ kustomize_docs = <<>>
    /\ helm_docs = <<>>
    /\ mappers = <<>>
    /\ exclude_crds = TRUE
    /\ IdleMain
    /\ IdlePath
    /\ IdleWorkload
    /\ IdleConversion

NextValues == BuildMappingValues \/ ShowPlan \/ GenerateValuesFile
SpecValues == InitValues /\ [][NextValues]_vars

\* a component of the mapping is optional when it is neither the chart's
\* own nor one of kserve and llmisvc
OptionalWithEnabled(m, c) ==
    /\ ~is_main_component(c, m["metadata"].name)
    /\ "enabled" \in DOMAIN m[c]

\* the values hold, under <component>.controllerManager, the defaultValue
\* of image.repository, image.tag and resources
HoldsControllerDefaults(vals, section, entry) ==
    /\ Has(vals, section)
    /\ Has(vals.v[section], "controllerManager")
    /\ LET cm == vals.v[section].v["controllerManager"]
       IN /\ Has(cm, "image")
          /\ GetOr(cm.v["image"], "repository", Null) = entry.controllerManager.image.repository.defaultValue
          /\ GetOr(cm.v["image"], "tag", Null) = entry.controllerManager.image.tag.defaultValue
          /\ GetOr(cm, "resources", Null) = entry.controllerManager.resources.defaultValue

\* C21: when _build_values has run on a mapping without rendered manifests,
\* the values hold for every component with a controllerManager entry the
\* defaultValue of image.repository, image.tag and resources under
\* <component>.controllerManager, and for every optional component with an
\* enabled entry <component>.enabled is the defaultValue of that entry
C21_BuildValuesEmitsDefaults ==
    (pc \in {"planned", "generated"} /\ manifests = <<>>) =>
        /\ \A c \in {"kserve", "localmodel"} \cap DOMAIN mapping :
              "controllerManager" \in DOMAIN mapping[c]
                  => HoldsControllerDefaults(values, c, mapping[c])
        /\ \A c \in {"localmodel"} \cap DOMAIN mapping :
              OptionalWithEnabled(mapping, c)
                  => GetOr(values.v[c], "enabled", Null) = mapping[c].enabled.defaultValue

\* the values that _build_component_values of values_generator.py returns
\* for the components hold the defaults
C21_ShadowedModuleEmitsDefaults ==
    \A c \in {"kserve", "localmodel"} \cap DOMAIN mapping :
        LET vals == Map(c :> _build_component_values(c, mapping[c], mapping["metadata"].name))
        IN /\ HoldsControllerDefaults(vals, c, mapping[c])
           /\ OptionalWithEnabled(mapping, c)
                  => vals.v[c].v["enabled"] = mapping[c].enabled.defaultValue

-----------------------------------------------------------------------------
(***************************************************************************)
(* The image lines of a workload template, rendered with values that the   *)
(* user of the chart supplies.  Two generators produce workload templates:  *)
(* WorkloadGenerator._generate_container_spec and                           *)
(* ChartGenerator._generate_deployment_template.                            *)
(***************************************************************************)

\* the image line that _generate_deployment_template writes for a
\* container: the references of the mapping for every container
deployment_image_template(container, cfg) ==
    IF "image" \in DOMAIN cfg
    THEN [literal |-> <<>>,
          repository |-> cfg.image.repository.valuePath,
          tag |-> <<cfg.image.tag.valuePath>>]
    ELSE [literal |-> container.v["image"].v, repository |-> <<>>, tag |-> <<>>]

ContainersOf(m) == m.v["spec"].v["template"].v["spec"].v["containers"].v

\* WorkloadGenerator: the containers of the workload, the one called
\* manager being the main container
GenerateContainerSpecs ==
    /\ pc = "start"
    /\ image_template' = [i \in DOMAIN ContainersOf(manifest) |->
                             container_image_template(ContainersOf(manifest)[i], cm_config)]
    /\ pc' = "template"
    /\ UNCHANGED <<converterVars, comparatorVars, mainVars, escape_obj, chart_name, component_name,
                   resources, templates, manifest, cm_config, app_version, values,
                   version_anchor_fields, rendered_image, yaml_content, warnings>>

\* ChartGenerator: "for container in ...['containers']" of
\* _generate_deployment_template
GenerateDeploymentContainers ==
    /\ pc = "start"
    /\ image_template' = [i \in DOMAIN ContainersOf(manifest) |->
                             deployment_image_template(ContainersOf(manifest)[i], cm_config)]
    /\ pc' = "template"
    /\ UNCHANGED <<converterVars, comparatorVars, mainVars, escape_obj, chart_name, component_name,
                   resources, templates, manifest, cm_config, app_version, values,
                   version_anchor_fields, rendered_image, yaml_content, warnings>>

\* the text helm renders for an image line
RenderImage(line, vals) ==
    IF line.tag = <<>> THEN line.literal
    ELSE TextOf(Lookup(vals, line.repository, 1)) \o <<":">>
         \o TextOf(DefaultChain(vals, line.tag, 1))

\* helm template with the values of the user
HelmTemplateImages ==
    /\ pc = "template"
    /\ rendered_image' = [i \in DOMAIN image_template |-> RenderImage(image_template[i], values)]
    /\ pc' = "rendered"
    /\ UNCHANGED <<converterVars, comparatorVars, mainVars, escape_obj, chart_name, component_name,
                   resources, templates, manifest, cm_config, app_version, values,
                   version_anchor_fields, image_template, yaml_content, warnings>>

\* a Deployment with the manager and a second container
TwoContainers(image, sidecar_image) ==
    Map(("kind" :> Tok("Deployment"))
        @@ ("metadata" :> Meta("kserve", "kserve-controller-manager", <<>>))
        @@ ("spec" :> Map("template" :> Map("spec" :> Map("containers" :> List(<<
               Map(("name" :> Tok("manager")) @@ ("image" :> Str(image))),
               Map(("name" :> Tok("kube-rbac-proxy")) @@ ("image" :> Str(sidecar_image)))>>))))))

\* the versions a user can set: not set (""), or a version
UserVersions == {"", "v7", "v8"}

\* the values of the user: the shared kserve.version, <component>.version
\* and the mapped repository and tag of the controller
UserValues(component, shared, own) ==
    LET controller == Map(("image" :> Tok("registry.io/ctl")) @@ ("tag" :> Tok("v9")))
        section(version) ==
            Map((IF version = "" THEN <<>> ELSE ("version" :> Tok(version)))
                @@ ("controller" :> controller))
    IN IF component = "kserve"
       THEN Map("kserve" :> section(shared))
       ELSE Map(("kserve" :> Map(IF shared = "" THEN <<>> ELSE ("version" :> Tok(shared))))
                @@ (component :> section(own)))

\* a controllerManager entry with or without an image entry
TagConfigs(component) ==
    { [image |-> [repository |-> Field(TRUE, RepoPath, <<component, "controller", "image">>),
                  tag |-> Field(TRUE, TagPath, <<component, "controller", "tag">>)],
       resources |-> Field(TRUE, ResPath, <<component, "controller", "resources">>)],
      [resources |-> Field(TRUE, ResPath, <<component, "controller", "resources">>)] }

InitTag ==
    /\ manifest \in {TwoContainers(Img(tag), <<"quay.io/proxy", ":", "v0">>) : tag \in {"latest", "v1"}}
    /\ component_name \in {"kserve", "localmodel"}
    /\ cm_config \in TagConfigs(component_name)
    /\ values \in {UserValues(component_name, shared, own) : shared \in UserVersions, own \in UserVersions}
    /\ app_version = "latest"
    /\ version_anchor_fields = <<>>
    /\ image_template = <<>>
    /\ rendered_image = <<>>
    /\ yaml_content = <<>>
    /\ warnings = {}
    /\ chart_name = ""
    /\ resources = <<>>
    /\ templates = <<>>
    /\ escape_obj = Null
    /\ pc = "start"
    /\ result = Raised
    /\ kustomize_docs = <<>>
    /\ helm_docs = <<>>
    /\ mappers = <<>>
    /\ exclude_crds = TRUE
    /\ IdleMain
    /\ IdleConverter

NextTag == GenerateContainerSpecs \/ GenerateDeploymentContainers \/ HelmTemplateImages
SpecTag == InitTag /\ [][NextTag]_vars

\* the first non-empty value of kserve.version, <component>.version and
\* the mapped tag parameter
ResolvedTag(vals, component, cfg) ==
    LET shared == Lookup(vals, <<"kserve", "version">>, 1)
        own == Lookup(vals, <<component, "version">>, 1)
    IN IF Truthy(shared) THEN shared
       ELSE IF Truthy(own) THEN own
       ELSE Lookup(vals, cfg.image.tag.valuePath, 1)

\* C22: in every rendered workload template whose component maps an image,
\* the tag of the primary container (manager) is the first non-empty value
\* of kserve.version, <component>.version and the mapped tag parameter, and
\* every other container has the image of the manifest
C22_TagResolvesThroughChain ==
    (pc = "rendered" /\ "image" \in DOMAIN cm_config) =>
        \A i \in DOMAIN rendered_image :
            LET container == ContainersOf(manifest)[i]
            IN IF container.v["name"] = Tok("manager")
               THEN rendered_image[i] =
                        TextOf(Lookup(values, cm_config.image.repository.valuePath, 1)) \o <<":">>
                        \o TextOf(ResolvedTag(values, component_name, cm_config))
               ELSE rendered_image[i] = container.v["image"].v

\* the rendered template is one that WorkloadGenerator has produced
FromWorkloadGenerator ==
    \A i \in DOMAIN image_template :
        image_template[i] = container_image_template(ContainersOf(manifest)[i], cm_config)

-----------------------------------------------------------------------------
(***************************************************************************)
(* The templates and the defaults of one component.  ChartGenerator routes *)
(* the resources of the component in _generate_kustomize_resources; the    *)
(* generators package has WorkloadGenerator for the workload and           *)
(* ResourceGenerator.generate_simple_resource for the other resources, and *)
(* ValuesGenerator builds the defaults.  The three steps of the generators *)
(* share no state, so the order in which they are taken does not matter.   *)
(***************************************************************************)

\* the subscripts of generate_simple_resource find what they name
SimpleSubscriptsResolve(r, component, config, chart) ==
    /\ Has(r, "apiVersion") /\ Has(r, "kind")
    /\ Has(r, "metadata") /\ Has(r.v["metadata"], "name")
    /\ is_main_component(component, chart)
          \/ ("enabled" \in DOMAIN config /\ "valuePath" \in DOMAIN config.enabled)

\* "for key, value in manifest['metadata']['annotations'].items()"
AnnotationLines(annotations) ==
    [i \in 1..Len(OrderedKeys(annotations)) |->
        Text(4, OrderedKeys(annotations)[i], PyFormat(annotations.v[OrderedKeys(annotations)[i]]))]

\* "for key in manifest" over the keys other than apiVersion, kind, metadata
OtherKeys(r) ==
    SelectSeq(OrderedKeys(r), LAMBDA k : k \notin {"apiVersion", "kind", "metadata"})

OtherFieldLines(r) ==
    LET field(k) == <<Header(0, k), TLine(2, "", "block", <<>>, 0, r.v[k])>>
    IN FlatMap(field, OtherKeys(r), 1)

\* ResourceGenerator.generate_simple_resource: the lines of the template
\* and the name of the file, or the KeyError that leaves it
generate_simple_resource(r, component, config, chart) ==
    IF ~SimpleSubscriptsResolve(r, component, config, chart)
    THEN [raised |-> TRUE, lines |-> <<>>, filename |-> <<>>]
    ELSE LET is_main == is_main_component(component, chart)
             enabled_path == IF is_main THEN <<>> ELSE config.enabled.valuePath
             metadata == r.v["metadata"]
         IN [raised |-> FALSE,
             lines |->
                (IF ~is_main /\ enabled_path # <<>>
                 THEN <<Directive(0, "if", <<enabled_path>>, 0)>> ELSE <<>>)
                \o << Text(0, "apiVersion", PyFormat(r.v["apiVersion"])),
                      Text(0, "kind", PyFormat(r.v["kind"])),
                      Header(0, "metadata"),
                      Text(2, "name", PyFormat(metadata.v["name"])) >>
                \o (IF Has(metadata, "namespace")
                    THEN <<Text(2, "namespace", <<"{{ .Release.Namespace }}">>)>> ELSE <<>>)
                \o (IF Has(metadata, "labels")
                    THEN <<Header(2, "labels"), Directive(4, "include", <<<<chart>>>>, 4)>>
                         \o add_kustomize_labels(metadata.v["labels"])
                    ELSE <<>>)
                \o (IF Has(metadata, "annotations")
                    THEN <<Header(2, "annotations")>> \o AnnotationLines(metadata.v["annotations"])
                    ELSE <<>>)
                \o OtherFieldLines(r)
                \o (IF is_main THEN <<>> ELSE <<Directive(0, "end", <<>>, 0)>>),
             filename |-> Filename(r)]

\* generate_simple_resource for one resource after the other: the files
\* written, a later file of the same name replacing an earlier one
RECURSIVE SimpleResources(_, _, _, _, _, _)
SimpleResources(files, rs, i, component, config, chart) ==
    IF i > Len(rs) THEN [raised |-> FALSE, files |-> files]
    ELSE LET generated == generate_simple_resource(rs[i], component, config, chart)
         IN IF generated.raised THEN [raised |-> TRUE, files |-> files]
            ELSE SimpleResources((generated.filename :> generated.lines) @@ files,
                                 rs, i + 1, component, config, chart)

\* WorkloadGenerator.generate_deployment for the controllerManager of the
\* component
GenerateComponentWorkload ==
    /\ pc = "start"
    /\ \E generated \in {generate_workload(manifest, mapping[component_name].controllerManager,
                                           component_name, chart_name, "deployment",
                                           enabled_path_of(component_name, chart_name,
                                                           mapping[component_name]))} :
          IF generated.raised
          THEN pc' = "raised" /\ UNCHANGED workload_template
          ELSE pc' = "workload" /\ workload_template' = generated.lines
    /\ UNCHANGED <<workload_type, pathVars, conversionVars, valuesVars, comparatorVars, mainVars,
                   generatorVars>>

\* ResourceGenerator.generate_simple_resource for the resources of the
\* component
GenerateSimpleResources ==
    /\ pc = "workload"
    /\ \E written \in {SimpleResources(<<>>, resources, 1, component_name,
                                       mapping[component_name], chart_name)} :
          /\ templates' = written.files
          /\ pc' = IF written.raised THEN "raised" ELSE "resources"
    /\ UNCHANGED <<converterVars, comparatorVars, mainVars, escape_obj, chart_name, component_name,
                   resources, imageVars>>

\* ValuesGenerator._build_values for the mapping of the component
BuildComponentDefaults ==
    /\ pc = "resources"
    /\ \E built \in {build_values(mapping, manifests)} :
          /\ builder_fields' = builder_fields \o built.anchors
          /\ IF built.raised
             THEN pc' = "raised" /\ UNCHANGED <<values, warnings>>
             ELSE /\ values' = built.values
                  /\ warnings' = built.warnings
                  /\ pc' = "defaults"
    /\ builds' = builds + 1
    /\ UNCHANGED <<mapping, manifests, pathVars, workloadVars, conversionVars, comparatorVars,
                   mainVars, escape_obj, chart_name, component_name, resources, templates,
                   manifest, cm_config, app_version, version_anchor_fields, image_template,
                   rendered_image, yaml_content>>

\* the enabled entries a mapping can declare for a component: none, the
\* parameter <component>.enabled, the parameter of the localmodel section
\* (where the defaults of localmodelnode go), and an empty valuePath
EnabledEntries(component) ==
    { <<>>,
      [enabled |-> [valuePath |-> <<component, "enabled">>]],
      [enabled |-> [valuePath |-> <<"localmodel", "enabled">>]],
      [enabled |-> [valuePath |-> <<>>]] }

WithApiVersion(r) == Put(r, "apiVersion", Tok("v1"))

\* the Deployment of the controller, named as the controllers of kserve
\* are or not
ControllerWorkload(name) ==
    LET w == WorkloadManifest("Deployment", <<>>, <<>>, <<>>)
    IN Put(w, "metadata", Put(w.v["metadata"], "name", Str(name)))

\* the resources kustomize builds for the component beside the workload
RoutedResources ==
    { WithApiVersion(Named("Service", "kserve", <<"webhook-service">>)),
      WithApiVersion(Named("Namespace", "", <<"kserve">>)),
      WithApiVersion(Put(Named("ClusterRole", "", <<"proxy-role">>), "rules", List(<<>>))) }

InitRouting ==
    /\ chart_name \in {"kserve", "localmodel"}
    /\ component_name \in {"kserve", "localmodel", "localmodelnode", "storage"}
    /\ manifest \in {ControllerWorkload(<<"kserve-controller-", "manager">>),
                     ControllerWorkload(<<"storage-controller">>)}
    /\ mapping \in { ("metadata" :> [name |-> chart_name, appVersion |-> "v1"])
                     @@ (component_name :>
                            (enabled @@ [controllerManager |-> ControllerEntry(component_name, FALSE)])) :
                     enabled \in EnabledEntries(component_name) }
    /\ manifests = (component_name :> manifest)
    /\ resources \in SeqsUpTo(RoutedResources \cup {manifest}, MaxResources)
    /\ builder_fields = <<>>
    /\ builds = 0
    /\ templates = <<>>
    /\ workload_type = "deployment"
    /\ workload_template = <<>>
    /\ cm_config = <<>>
    /\ app_version = "v1"
    /\ values = Null
    /\ version_anchor_fields = <<>>
    /\ image_template = <<>>
    /\ rendered_image = <<>>
    /\ yaml_content = <<>>
    /\ warnings = {}
    /\ escape_obj = Null
    /\ pc = "start"
    /\ result = Raised
    /\ kustomize_docs = <<>>
    /\ helm_docs = <<>>
    /\ mappers = <<>>
    /\ exclude_crds = TRUE
    /\ IdleMain
    /\ IdlePath
    /\ IdleConversion

NextRouting ==
    \/ generate_kustomize_resources
    \/ GenerateComponentWorkload
    \/ GenerateSimpleResources
    \/ BuildComponentDefaults
SpecRouting == InitRouting /\ [][NextRouting]_vars

\* the parameter that the mapping declares as the enabled parameter of the
\* component, <<>> when it declares none
DeclaredEnabledPath(m, component) ==
    IF "enabled" \in DOMAIN m[component] /\ "valuePath" \in DOMAIN m[component].enabled
    THEN m[component].enabled.valuePath
    ELSE <<>>

\* the parameter the guard around a file of _generate_kustomize_resources
\* refers to, <<>> for a file without guard
KustomizeGuard(template) ==
    IF template.guard = <<>> THEN <<>> ELSE <<template.guard[2], "enabled">>

\* the parameter of the "if" that opens a template of the generators
OpeningGuard(lines) ==
    IF Len(lines) > 0 /\ lines[1].form = "if" THEN lines[1].arg[1] ELSE <<>>

\* the guard the routing rules ask for: none for a component that is
\* always installed, the declared enabled parameter for any other
RuleGuard ==
    IF is_main_component(component_name, chart_name) THEN <<>>
    ELSE DeclaredEnabledPath(mapping, component_name)

\* C23: of the resources of a component, the router skips a Namespace and
\* the workload that the workload builder emits, also for a component that
\* is optional; every file it writes for an always-installed component has
\* no guard, and every file of another component is wrapped in a guard on
\* the enabled parameter that the mapping declares for the component
C23_RoutingRules ==
    /\ pc = "done" =>
          /\ \A i \in DOMAIN resources :
                (KindOf(resources[i]) = Tok("Namespace") \/ resources[i] = manifest)
                    => Filename(resources[i]) \notin DOMAIN templates
          /\ \A f \in DOMAIN templates :
                /\ KustomizeGuard(templates[f]) = RuleGuard
                /\ is_main_component(component_name, chart_name) \/ RuleGuard # <<>>
    /\ pc \in {"resources", "defaults"} =>
          \A f \in DOMAIN templates :
              /\ OpeningGuard(templates[f]) = RuleGuard
              /\ is_main_component(component_name, chart_name) \/ RuleGuard # <<>>


\* the section of the defaults that _build_values gives to a component:
\* localmodelnode is merged into the section of localmodel
DefaultsSection(component) == IF component = "localmodelnode" THEN "localmodel" ELSE component

\* the defaults hold an enabled key for the component
DefaultsHaveEnabled(vals, component) ==
    /\ Has(vals, DefaultsSection(component))
    /\ Has(vals.v[DefaultsSection(component)], "enabled")

\* C26: when the workload template, the templates of the other resources
\* and the defaults of a component are produced, the templates agree on the
\* routing - all without guard or all wrapped in the same enabled guard -
\* and the defaults have an enabled key for the component exactly when its
\* templates are guarded
C26_RoutingAgrees ==
    pc = "defaults" =>
        /\ \A f \in DOMAIN templates :
              OpeningGuard(templates[f]) = OpeningGuard(workload_template)
        /\ DefaultsHaveEnabled(values, component_name) <=> OpeningGuard(workload_template) # <<>>


\* a template has balanced guards: its last line is the closing "end"
\* exactly when its first line is the opening "if"
Balanced(lines) ==
    Len(lines) > 0 /\ (lines[1].form = "if" <=> lines[Len(lines)].form = "end")

\* C27: every template that WorkloadGenerator and ResourceGenerator write
\* has balanced guards: it ends with the closing end if and only if it
\* begins with the opening if on the enabled parameter, for main and for
\* optional components, whether or not the configuration of the component
\* has a non-empty enabled.valuePath
C27_GuardsBalanced ==
    pc \in {"workload", "resources", "defaults"} =>
        /\ Balanced(workload_template)
        /\ \A f \in DOMAIN templates : Balanced(templates[f])


-----------------------------------------------------------------------------
(* What apply_version_anchors leaves alone *)

\* the lines of values.yaml that differ from the dumped values behind the
\* inserted kserve.version
RewrittenLines(content, vals, version) ==
    {i \in DOMAIN content : content[i] # AddAnchorSource(yaml_dump(vals), version)[i]}

\* the places in values.yaml of the fields the mapping marks
\* useVersionAnchor: the tag of a controller and the version of a component
MarkedFields(m) ==
    {TagLocation(m[c].controllerManager, DefaultsSection(c)) :
        c \in {x \in Components(m) : m[x].controllerManager.image.tag.useVersionAnchor}}
    \cup {m[c].version.valuePath :
             c \in {x \in Components(m) : "version" \in DOMAIN m[x] /\ m[x].version.useVersionAnchor}}

\* C28: apply_version_anchors changes nothing in the document except the
\* inserted kserve.version line and the values of the fields listed in
\* version_anchor_fields: a field that is not marked useVersionAnchor keeps
\* its literal value, also when the value is latest or the chart version
\* and when its key and the key of its parent are those of a marked field
C28_OnlyAnchorFieldsChange ==
    pc = "generated" =>
        /\ Len(yaml_content) = Len(AddAnchorSource(yaml_dump(values), app_version))
        /\ \A i \in RewrittenLines(yaml_content, values, app_version) :
              LinePath(yaml_content, i) \in MarkedFields(mapping)


-----------------------------------------------------------------------------
(* The anchor fields the builders hand to generate *)

\* no path occurs twice in the list
EachPathOnce(fields) ==
    \A i, j \in DOMAIN fields : fields[i] = fields[j] => i = j

\* C29: the version-anchor field list collected from the builders depends
\* only on the mapping and the manifests: after any number of values builds
\* on the same ValuesGenerator (show_plan and then generate, or a chart that
\* is itself named localmodel so that the component is built twice) the
\* list is the list of a single build and holds each anchor path at most once
C29_AnchorListIsStable ==
    builds >= 1 =>
        /\ builder_fields = build_values(mapping, manifests).anchors
        /\ EachPathOnce(builder_fields)


-----------------------------------------------------------------------------
(* The two documents compare_resources classifies a key with *)

\* the normalized document and the original document of a key are taken
\* from the same resource of docs
SameInputResource(docs, key) ==
    Indexed(docs, key) = normalize_resource(Original(docs, key))

\* C30: in compare_resources, for every key common to both sets and for
\* each side, the normalized document and the original document used to
\* classify the key are derived from the same input resource, also when a
\* set holds several resources with the same (kind, namespace, name) key
C30_NormalizedOfTheOriginal ==
    (pc = "done" /\ ~result.raised) =>
        \A key \in result.common :
            /\ SameInputResource(FilterCRDs(kustomize_docs, exclude_crds), key)
            /\ SameInputResource(FilterCRDs(helm_docs, exclude_crds), key)


-----------------------------------------------------------------------------
(* Placeholder engine: GenericPlaceholderGenerator and                     *)
(* RuntimeTemplateGenerator.  A text is a sequence of pieces; a valuePath  *)
(* of a resource config is one piece                                       *)

IMAGE_PLACEHOLDER(img_repo_path, img_tag_path) ==
    <<"__IMAGE_PLACEHOLDER_", img_repo_path, "_", img_tag_path, "__">>
RESOURCES_PLACEHOLDER(resources_path) == <<"__RESOURCES_PLACEHOLDER_", resources_path, "__">>
HELM_LABELS_PLACEHOLDER == <<"__HELM_LABELS_PLACEHOLDER__">>
NAMESPACE_PLACEHOLDER == <<"__NAMESPACE_PLACEHOLDER__">>

ImageSentinel(config) ==
    IMAGE_PLACEHOLDER(config.image.repository.valuePath, config.image.tag.valuePath)
ResourcesSentinel(config) == RESOURCES_PLACEHOLDER(config.resources.valuePath)

\* the expressions the placeholders are replaced with
ImageExpression(config) ==
    <<"{{ .Values.", config.image.repository.valuePath, " }}", ":",
      "{{ .Values.", config.image.tag.valuePath, " }}">>
ResourcesExpression(config) ==
    <<"{{- toYaml .Values.", config.resources.valuePath, " | nindent 6 }}">>
LabelsExpression(chart) == <<"{{- include ", chart, ".labels . | nindent 4 }}">>
NamespaceExpression == <<"{{ .Release.Namespace }}">>

\* manifest['spec']['containers'][0] can be subscripted
FirstContainerResolves(m) ==
    /\ Has(m, "spec") /\ Has(m.v["spec"], "containers")
    /\ IsList(m.v["spec"].v["containers"])
    /\ Len(m.v["spec"].v["containers"].v) > 0
    /\ IsMap(m.v["spec"].v["containers"].v[1])

\* manifest['spec']['containers'][0][field] = value
SetFirstContainer(m, field, value) ==
    Put(m, "spec", Put(m.v["spec"], "containers",
        List([m.v["spec"].v["containers"].v EXCEPT ![1] = Put(@, field, value)])))

\* manifest['metadata'][key] = value, metadata created when missing
SetMetadata(m, key, value) ==
    Put(m, "metadata", Put(GetOr(m, "metadata", EmptyMap), key, value))

ItemKeys == <<"-[0]", "-[1]", "-[2]">>

\* a sequence as the mapping of its item markers
Items(node) == Map([k \in {ItemKeys[i] : i \in DOMAIN node.v} |->
                      node.v[CHOOSE i \in DOMAIN node.v : ItemKeys[i] = k]])

\* yaml.dump(manifest, Dumper=CustomDumper, default_flow_style=False,
\* sort_keys=False, width=inf): one line per key and per item of a sequence
RECURSIVE dump_manifest(_, _, _, _)
dump_manifest(node, keys, i, indent) ==
    IF i > Len(keys) THEN <<>>
    ELSE LET child == node.v[keys[i]]
         IN (CASE IsMap(child) /\ Truthy(child) ->
                    <<Line(indent, keys[i], <<>>)>>
                    \o dump_manifest(child, OrderedKeys(child), 1, indent + 1)
               [] IsList(child) /\ Truthy(child) ->
                    <<Line(indent, keys[i], <<>>)>>
                    \o dump_manifest(Items(child), SelectSeq(ItemKeys, LAMBDA k : k \in DOMAIN Items(child).v),
                                     1, indent + 1)
               [] OTHER -> <<Line(indent, keys[i], ScalarText(child))>>)
            \o dump_manifest(node, keys, i + 1, indent)

ManifestText(m) == dump_manifest(m, OrderedKeys(m), 1, 0)

\* the line is below a labels or an annotations key
InLabels(lines, i) ==
    \E j \in 1..(Len(LinePath(lines, i)) - 1) :
        LinePath(lines, i)[j] \in {"labels", "annotations"}

\* quote_numeric_strings_in_labels: a value of a label or an annotation that
\* reads as a number is written in quotes
quote_numeric_strings_in_labels(lines) ==
    [i \in DOMAIN lines |->
        IF InLabels(lines, i) /\ Len(lines[i].val) = 1 /\ IsNumTok(lines[i].val[1])
        THEN [lines[i] EXCEPT !.val = <<"\"">> \o @ \o <<"\"">>]
        ELSE lines[i]]

\* manifest_yaml.replace('<key>: <placeholder>', '<key>: <expression>'):
\* every occurrence of the text is replaced
ReplacePlaceholder(lines, key, placeholder, expression) ==
    [i \in DOMAIN lines |->
        IF LineHas(lines[i], key) /\ StartsWith(lines[i].val, placeholder)
        THEN [lines[i] EXCEPT !.val = expression \o SubSeq(@, Len(placeholder) + 1, Len(@))]
        ELSE lines[i]]

IfLine(path) == Line(0, "{{- if", <<".Values.", path, " }}">>)
EndLine == Line(0, "{{- end }}", <<>>)

\* GenericPlaceholderGenerator._wrap_with_conditionals
_wrap_with_conditionals(manifest_yaml, config, subdir_name) ==
    IF subdir_name = "runtimes"
    THEN IF "enabledPath" \in DOMAIN config /\ config.enabledPath # ""
         THEN <<IfLine("runtimes.enabled"), IfLine(config.enabledPath)>>
              \o manifest_yaml \o <<EndLine, EndLine>>
         ELSE <<IfLine("runtimes.enabled")>> \o manifest_yaml \o <<EndLine>>
    ELSE IF subdir_name = "llmisvcconfigs"
    THEN <<IfLine("llmisvcConfigs.enabled")>> \o manifest_yaml \o <<EndLine>>
    ELSE manifest_yaml

copy_as_is_of(resource_data) ==
    "copyAsIs" \in DOMAIN resource_data /\ resource_data.copyAsIs

\* GenericPlaceholderGenerator._get_output_filename
_get_output_filename(resource_name, resource_data) ==
    IF copy_as_is_of(resource_data) /\ "original_filename" \in DOMAIN resource_data
    THEN resource_data.original_filename
    ELSE Replace(Replace(resource_name, <<"kserve-config-">>, <<>>), <<"kserve-">>, <<>>)
         \o <<".yaml">>

\* GenericPlaceholderGenerator._generate_single_template: the file name and
\* the template, or the exception of a subscript
_generate_single_template(resource_data, subdir_name, chart) ==
    LET config == resource_data.config
        escaped == escape_go_templates_in_resource(resource_data.manifest)
        has_containers == Has(escaped, "spec") /\ Has(escaped.v["spec"], "containers")
        image == "image" \in DOMAIN config /\ has_containers
        res == "resources" \in DOMAIN config /\ has_containers
    IN IF (image \/ res) /\ ~FirstContainerResolves(escaped)
       THEN [raised |-> TRUE, filename |-> <<>>, lines |-> <<>>]
       ELSE
       LET m1 == IF image THEN SetFirstContainer(escaped, "image", Str(ImageSentinel(config)))
                 ELSE escaped
           m2 == IF res THEN SetFirstContainer(m1, "resources", Str(ResourcesSentinel(config)))
                 ELSE m1
           m3 == SetMetadata(m2, "labels", Str(HELM_LABELS_PLACEHOLDER))
           m4 == IF copy_as_is_of(resource_data)
                 THEN SetMetadata(m3, "namespace", Str(NAMESPACE_PLACEHOLDER)) ELSE m3
           y0 == quote_numeric_strings_in_labels(ManifestText(m4))
           y1 == ReplacePlaceholder(y0, "labels", HELM_LABELS_PLACEHOLDER, LabelsExpression(chart))
           y2 == IF copy_as_is_of(resource_data)
                 THEN ReplacePlaceholder(y1, "namespace", NAMESPACE_PLACEHOLDER, NamespaceExpression)
                 ELSE y1
           y3 == IF image
                 THEN ReplacePlaceholder(y2, "image", ImageSentinel(config), ImageExpression(config))
                 ELSE y2
           y4 == IF res
                 THEN ReplacePlaceholder(y3, "resources", ResourcesSentinel(config),
                                         ResourcesExpression(config))
                 ELSE y3
       IN [raised |-> FALSE,
           filename |-> _get_output_filename(config.name, resource_data),
           lines |-> _wrap_with_conditionals(y4, config, subdir_name)]

\* RuntimeTemplateGenerator._generate_runtime_template
_generate_runtime_template(runtime_data, chart) ==
    LET config == runtime_data.config
        escaped == escape_go_templates_in_resource(runtime_data.manifest)
        image == "image" \in DOMAIN config
        res == "resources" \in DOMAIN config
    IN IF \/ "enabledPath" \notin DOMAIN config
          \/ (image \/ res) /\ ~FirstContainerResolves(escaped)
       THEN [raised |-> TRUE, filename |-> <<>>, lines |-> <<>>]
       ELSE
       LET m1 == IF image THEN SetFirstContainer(escaped, "image", Str(ImageSentinel(config)))
                 ELSE escaped
           m2 == IF res THEN SetFirstContainer(m1, "resources", Str(ResourcesSentinel(config)))
                 ELSE m1
           m3 == SetMetadata(m2, "labels", Str(HELM_LABELS_PLACEHOLDER))
           y0 == quote_numeric_strings_in_labels(ManifestText(m3))
           y1 == ReplacePlaceholder(y0, "labels", HELM_LABELS_PLACEHOLDER, LabelsExpression(chart))
           y2 == IF image
                 THEN ReplacePlaceholder(y1, "image", ImageSentinel(config), ImageExpression(config))
                 ELSE y1
           y3 == IF res
                 THEN ReplacePlaceholder(y2, "resources", ResourcesSentinel(config),
                                         ResourcesExpression(config))
                 ELSE y2
       IN [raised |-> FALSE,
           filename |-> Replace(config.name, <<"kserve-">>, <<>>) \o <<".yaml">>,
           lines |-> <<IfLine("runtimes.enabled"), IfLine(config.enabledPath)>>
                     \o y3 \o <<EndLine, EndLine>>]

\* the loop of generate_templates over the list: the files written so far
\* and whether an exception has ended the loop
RECURSIVE PlaceholderLoop(_, _, _, _, _)
PlaceholderLoop(files, list, i, subdir_name, chart) ==
    IF i > Len(list) THEN [raised |-> FALSE, files |-> files]
    ELSE LET t == IF subdir_name = "runtime_generator"
                  THEN _generate_runtime_template(list[i], chart)
                  ELSE _generate_single_template(list[i], subdir_name, chart)
         IN IF t.raised THEN [raised |-> TRUE, files |-> files]
            ELSE PlaceholderLoop((t.filename :> t.lines) @@ files, list, i + 1, subdir_name, chart)

\* GenericPlaceholderGenerator.generate_templates(templates_dir,
\* resource_list, subdir_name)
GenerateGenericTemplates ==
    /\ pc = "start"
    /\ \E subdir_name \in {"runtimes", "llmisvcconfigs"} :
          \E done \in {PlaceholderLoop(<<>>, resources, 1, subdir_name, chart_name)} :
             /\ templates' = done.files
             /\ pc' = IF done.raised THEN "raised" ELSE subdir_name
    /\ UNCHANGED <<converterVars, comparatorVars, mainVars, escape_obj, chart_name,
                   component_name, resources, imageVars>>

\* RuntimeTemplateGenerator.generate_runtime_templates(templates_dir,
\* manifests): the list is manifests['runtimes']
GenerateRuntimeTemplates ==
    /\ pc = "start"
    /\ \E done \in {PlaceholderLoop(<<>>, resources, 1, "runtime_generator", chart_name)} :
          /\ templates' = done.files
          /\ pc' = IF done.raised THEN "raised" ELSE "runtime_generator"
    /\ UNCHANGED <<converterVars, comparatorVars, mainVars, escape_obj, chart_name,
                   component_name, resources, imageVars>>

\* resource configs of the mapping: with or without image, resources and
\* enabledPath
ResourceConfig(name, image, res, enabled) ==
    [name |-> name]
    @@ (IF image THEN [image |-> [repository |-> [valuePath |-> "runtimes.sk.image.repository"],
                                  tag |-> [valuePath |-> "runtimes.sk.image.tag"]]]
        ELSE <<>>)
    @@ (IF res THEN [resources |-> [valuePath |-> "runtimes.sk.resources"]] ELSE <<>>)
    @@ (IF enabled THEN [enabledPath |-> "runtimes.sk.enabled"] ELSE <<>>)

FullConfig == ResourceConfig(<<"kserve-", "sklearn">>, TRUE, TRUE, TRUE)

RuntimeContainer(cname, image) ==
    Map(("name" :> Tok(cname)) @@ ("image" :> Str(image))
        @@ ("resources" :> Map(Cpu(1))))

Runtime(meta, containers) ==
    Map(("kind" :> Tok("ClusterServingRuntime")) @@ ("metadata" :> Map(meta))
        @@ ("spec" :> Map("containers" :> List(containers))))

PlainRuntime == Runtime("name" :> Tok("sklearn"), <<RuntimeContainer("server", Img("v1"))>>)

\* the resource data the generators are run on: a runtime with one
\* container, with labels and a numeric annotation of its own, with a second
\* container, with a text that reads like a placeholder, with a template
\* expression of the model server, and a config without containers
ResourceData ==
    { [config |-> ResourceConfig(<<"kserve-", "sklearn">>, image, res, TRUE),
       manifest |-> PlainRuntime] : image, res \in BOOLEAN }
    \cup
    { [config |-> FullConfig,
       manifest |-> Runtime(("name" :> Tok("sklearn"))
                            @@ ("labels" :> Map("app" :> Tok("kserve")))
                            @@ ("annotations" :> Map("rank" :> Tok("1"))),
                            <<RuntimeContainer("server", Img("v1"))>>)],
      [config |-> FullConfig,
       manifest |-> Runtime("name" :> Tok("sklearn"),
                            <<RuntimeContainer("server", Img("v1")),
                              RuntimeContainer("sidecar", Img("v2"))>>)],
      [config |-> FullConfig,
       manifest |-> Runtime("name" :> Tok("sklearn"),
                            <<RuntimeContainer("server", Img("v1")),
                              RuntimeContainer("sidecar", ImageSentinel(FullConfig))>>)],
      [config |-> ResourceConfig(<<"kserve-", "sklearn">>, TRUE, TRUE, FALSE),
       manifest |-> Runtime("name" :> Tok("sklearn"),
                            <<RuntimeContainer("server", Open \o <<".Name">> \o Close)>>)],
      [config |-> ResourceConfig(<<"kserve-config-", "llm">>, TRUE, FALSE, TRUE),
       manifest |-> Map(("kind" :> Tok("LLMInferenceServiceConfig"))
                        @@ ("metadata" :> Map(("name" :> Tok("llm")) @@ ("namespace" :> Tok("kserve"))))
                        @@ ("spec" :> Map("model" :> Tok("m")))),
       copyAsIs |-> TRUE, original_filename |-> <<"config-llm.yaml">>],
      [config |-> ResourceConfig(<<"kserve-config-", "llm">>, FALSE, FALSE, TRUE),
       manifest |-> Map(("kind" :> Tok("LLMInferenceServiceConfig"))
                        @@ ("metadata" :> Map(("name" :> Tok("llm"))
                                              @@ ("labels" :> Str(HELM_LABELS_PLACEHOLDER))))
                        @@ ("spec" :> Map("labels" :> Str(HELM_LABELS_PLACEHOLDER)))),
       copyAsIs |-> TRUE] }

InitPlaceholder ==
    /\ chart_name = "kserve-runtime-configs"
    /\ resources \in SeqsUpTo(ResourceData, MaxResources)
    /\ templates = <<>>
    /\ component_name = ""
    /\ escape_obj = Null
    /\ IdleImage
    /\ pc = "start"
    /\ result = Raised
    /\ kustomize_docs = <<>>
    /\ helm_docs = <<>>
    /\ mappers = <<>>
    /\ exclude_crds = TRUE
    /\ IdleMain
    /\ IdleConverter

NextPlaceholder == GenerateGenericTemplates \/ GenerateRuntimeTemplates
SpecPlaceholder == InitPlaceholder /\ [][NextPlaceholder]_vars


\* the file generate_templates writes for a resource of the list
FileOf(resource_data) ==
    IF pc = "runtime_generator"
    THEN Replace(resource_data.config.name, <<"kserve-">>, <<>>) \o <<".yaml">>
    ELSE _get_output_filename(resource_data.config.name, resource_data)

\* no later resource of the list is written to the same file
KeepsItsFile(k) ==
    \A l \in DOMAIN resources : l > k => FileOf(resources[l]) # FileOf(resources[k])

\* the source manifest as it is serialized without any substitution
SourceText(resource_data) ==
    quote_numeric_strings_in_labels(
        ManifestText(escape_go_templates_in_resource(resource_data.manifest)))

\* line i writes the field at path or a field below it
WritesBelow(lines, i, path) == StartsWith(LinePath(lines, i), path)

\* the fields the substitutions of the mapping name: image and resources of
\* the first container
Substituted(lines, i, config) ==
    \/ "image" \in DOMAIN config /\ WritesBelow(lines, i, <<"spec", "containers", "-[0]", "image">>)
    \/ "resources" \in DOMAIN config
       /\ WritesBelow(lines, i, <<"spec", "containers", "-[0]", "resources">>)

\* the line is in the template, at the same place of the document
Serialized(template, lines, i) ==
    \E j \in DOMAIN template :
        template[j] = lines[i] /\ LinePath(template, j) = LinePath(lines, i)

Generated == pc \in {"runtimes", "llmisvcconfigs", "runtime_generator"}

\* C24: in the template the placeholder engine writes for a resource, every
\* field of the source manifest other than the fields named by the
\* substitutions of the mapping (image, resources) is serialized with its
\* original value, the manifest's own metadata.labels entries and the
\* containers other than the substituted one included
C24_OtherFieldsKeepValue ==
    Generated =>
        \A k \in DOMAIN resources :
            KeepsItsFile(k) =>
                \A i \in DOMAIN SourceText(resources[k]) :
                    \/ Substituted(SourceText(resources[k]), i, resources[k].config)
                    \/ Serialized(templates[FileOf(resources[k])], SourceText(resources[k]), i)

-----------------------------------------------------------------------------
(* The sentinels of the placeholder engine *)

SentinelPieces == {"__IMAGE_PLACEHOLDER_", "__RESOURCES_PLACEHOLDER_",
                   "__HELM_LABELS_PLACEHOLDER__", "__NAMESPACE_PLACEHOLDER__"}

HasSentinel(line) == \E p \in DOMAIN line.val : line.val[p] \in SentinelPieces

\* the fields a sentinel is put in: the substituted fields, metadata.labels
\* and, for a resource copied as it is, metadata.namespace
SentinelField(lines, i, resource_data) ==
    \/ Substituted(lines, i, resource_data.config)
    \/ WritesBelow(lines, i, <<"metadata", "labels">>)
    \/ pc # "runtime_generator" /\ copy_as_is_of(resource_data)
       /\ WritesBelow(lines, i, <<"metadata", "namespace">>)

\* C25: the sentinel of every substitution differs from the sentinel of
\* every other substitution and from every text of the source document: the
\* replacement after serialization changes the substituted fields and
\* nothing else of the output, and no sentinel is left in the template
C25_SentinelsCollisionFree ==
    Generated =>
        \A k \in DOMAIN resources :
            KeepsItsFile(k) =>
                /\ \A i \in DOMAIN SourceText(resources[k]) :
                      \/ SentinelField(SourceText(resources[k]), i, resources[k])
                      \/ Serialized(templates[FileOf(resources[k])], SourceText(resources[k]), i)
                /\ \A j \in DOMAIN templates[FileOf(resources[k])] :
                      ~HasSentinel(templates[FileOf(resources[k])][j])

====
